---- MODULE Spec2Model ----
(***************************************************************************)
(* A model of the streaming core of tokio-mime: the multipart Writer and   *)
(* Reader (src/src/multipart) and the quoted-printable Writer and Reader   *)
(* (src/src/quotedprintable).                                              *)
(*                                                                         *)
(* Bytes are the integers 0..255 and a byte string is a sequence of them.  *)
(* A Rust String is modelled by its UTF-8 bytes; every string the model    *)
(* feeds to the program is ASCII, for which from_utf8 succeeds, byte order *)
(* is String order, and to_lowercase / trim act on single bytes; the only  *)
(* exception is the argument of set_boundary, read through chars.          *)
(*                                                                         *)
(* Spec         : a multipart Writer over a Vec<u8> sink, then a multipart *)
(*                Reader over the bytes the Writer produced.               *)
(* SpecBoundary : a multipart Writer given boundaries of every kind.       *)
(* SpecRead     : a multipart Reader over messages written by hand.        *)
(* SpecHeader   : read_mime_header, turn by turn, on line lengths.         *)
(* SpecData     : read_part_data, turn by turn, on chunk lengths.          *)
(* SpecQP       : a quoted-printable Writer over a Vec<u8> sink, then a    *)
(*                quoted-printable Reader over the bytes the Writer        *)
(*                produced or over bytes of the caller's choice.           *)
(***************************************************************************)
EXTENDS Integers, Sequences, FiniteSets, TLC

VARIABLES
    writer,     \* multipart Writer: [boundary, has_parts, open]
    sink,       \* the bytes the multipart Writer's sink (a Vec<u8>) holds
    written,    \* history: the parts created so far, [header, body, at]
    reader,     \* multipart Reader (a record), or NoReader before Reader::new
    source,     \* the Reader's byte source: [data, cuts]
    results,    \* history: the result of every next_part call, in order
    wres,       \* the result of the latest call on the multipart Writer
    qw,         \* quoted-printable Writer: [binary, line, pending_cr, open]
    qsink,      \* the bytes the quoted-printable Writer's sink holds
    qin,        \* history: the calls made on the quoted-printable Writer
    qr,         \* quoted-printable Reader (a record), or NoReader
    qsrc,       \* the quoted-printable Reader's byte source
    qreads,     \* history: the result of every read call, in order
    header_loop,    \* read_mime_header in progress: [total_size, header_count, status]
    header_read,    \* history: the lines it has read, [bytes, header_bytes, header_lines]
    data_loop,      \* read_part_data in progress: [total_bytes, status]
    data_read,      \* history: what it has taken for the body, [bytes, short, newline]
    tasks,          \* the tasks that each drive a multipart Reader of their own:
                    \* task |-> [reader, source, results]
    qavail          \* how many bytes of qsrc the source has delivered so far

mpvars == <<writer, sink, written, reader, source, results, wres>>
qpvars == <<qw, qsink, qin, qr, qsrc, qreads>>
limvars == <<header_loop, header_read, data_loop, data_read>>
vars == <<writer, sink, written, reader, source, results, wres,
          qw, qsink, qin, qr, qsrc, qreads,
          header_loop, header_read, data_loop, data_read, tasks, qavail>>

----------------------------------------------------------------------------
(* Bytes and byte strings *)

HT == 9
LF == 10
VT == 11
FF == 12
CR == 13
SP == 32
DQUOTE == 34
DASH == 45
SLASH == 47
COLON == 58
SEMI == 59
EQUALS == 61
BACKSLASH == 92
DOT == 46
TILDE == 126
BANG == 33

CRLF == <<CR, LF>>

Min(a, b) == IF a <= b THEN a ELSE b

SetMin(S) == CHOOSE x \in S : \A y \in S : x <= y

Drop(s, n) == SubSeq(s, n + 1, Len(s))

Take(s, n) == SubSeq(s, 1, n)

StartsWith(s, p) == Len(p) <= Len(s) /\ SubSeq(s, 1, Len(p)) = p

EndsWith(s, p) == Len(p) <= Len(s) /\ SubSeq(s, Len(s) - Len(p) + 1, Len(s)) = p

\* The index of the first b in s, or 0 (Iterator::position, str::find).
IndexOf(s, b) ==
    LET I == {i \in 1..Len(s) : s[i] = b}
    IN  IF I = {} THEN 0 ELSE SetMin(I)

RECURSIVE Concat(_)
Concat(ss) == IF ss = <<>> THEN <<>> ELSE Head(ss) \o Concat(Tail(ss))

\* Lexicographic order on byte strings: the order of Rust's String.
RECURSIVE BytesLess(_, _)
BytesLess(a, b) ==
    IF a = <<>> THEN b # <<>>
    ELSE IF b = <<>> THEN FALSE
    ELSE IF a[1] # b[1] THEN a[1] < b[1]
    ELSE BytesLess(Tail(a), Tail(b))

\* u8::to_ascii_lowercase on each byte (str::to_lowercase on ASCII).
to_lowercase(s) == [i \in 1..Len(s) |-> IF s[i] >= 65 /\ s[i] <= 90 THEN s[i] + 32 ELSE s[i]]

\* char::is_whitespace on an ASCII byte.
is_trim_space(b) == b \in {HT, LF, VT, FF, CR, SP}

RECURSIVE trim_start(_)
trim_start(s) == IF s # <<>> /\ is_trim_space(s[1]) THEN trim_start(Tail(s)) ELSE s

RECURSIVE trim_end(_)
trim_end(s) ==
    IF s # <<>> /\ is_trim_space(s[Len(s)]) THEN trim_end(Take(s, Len(s) - 1)) ELSE s

\* str::trim.
trim(s) == trim_end(trim_start(s))

\* str::trim_end_matches(c).
RECURSIVE trim_end_matches(_, _)
trim_end_matches(s, c) ==
    IF s # <<>> /\ s[Len(s)] = c THEN trim_end_matches(Take(s, Len(s) - 1), c) ELSE s

NoReader == [none |-> TRUE]

----------------------------------------------------------------------------
(* Multipart Writer: src/src/multipart/writer.rs *)

\* "0123456789abcdef", the digits of format!("{:02x}", b).
LOWER_HEX == <<48, 49, 50, 51, 52, 53, 54, 55, 56, 57, 97, 98, 99, 100, 101, 102>>

\* The size of the random buffer behind the default boundary.
BOUNDARY_RANDOM_BYTES == 30

\* The longest boundary set_boundary accepts.
BOUNDARY_MAX_LEN == 70

\* generate_boundary, as a function of the 30 bytes getrandom delivered.
generate_boundary(buf) ==
    Concat([i \in 1..Len(buf) |->
              <<LOWER_HEX[(buf[i] \div 16) + 1], LOWER_HEX[(buf[i] % 16) + 1]>>])

is_ascii_alphanumeric(b) ==
    \/ b >= 48 /\ b <= 57
    \/ b >= 65 /\ b <= 90
    \/ b >= 97 /\ b <= 122

\* The characters set_boundary accepts besides letters and digits:
\* ' ( ) + _ , - . / : = ?
BOUNDARY_PUNCT == {39, 40, 41, 43, 95, 44, 45, 46, 47, 58, 61, 63}

\* str::chars over the UTF-8 bytes of a String: the code points in order. A char
\* starts at every byte that is not a continuation byte (10xxxxxx).
chars(s) ==
    LET cont(i) == IF i <= Len(s) THEN s[i] - 128 ELSE 0
        code(i) ==
            IF s[i] < 128 THEN s[i]
            ELSE IF s[i] < 192 THEN -1
            ELSE IF s[i] < 224 THEN (s[i] - 192) * 64 + cont(i + 1)
            ELSE IF s[i] < 240 THEN ((s[i] - 224) * 64 + cont(i + 1)) * 64 + cont(i + 2)
            ELSE (((s[i] - 240) * 64 + cont(i + 1)) * 64 + cont(i + 2)) * 64 + cont(i + 3)
        is_char(c) == c >= 0
    IN  SelectSeq([i \in 1..Len(s) |-> code(i)], is_char)

\* set_boundary's validation with the length test one too strict.
validate_boundary_below_max(boundary) ==
    IF boundary = <<>> \/ Len(boundary) >= BOUNDARY_MAX_LEN THEN "length"
    ELSE LET ch == chars(boundary)
         IN  IF \E i \in 1..Len(ch) :
                   ~ \/ is_ascii_alphanumeric(ch[i])
                     \/ ch[i] \in BOUNDARY_PUNCT
                     \/ ch[i] = SP /\ i - 1 # Len(boundary) - 1
             THEN "character"
             ELSE "ok"

\* The validation of set_boundary: "length" when the length is refused, "character"
\* when a character is, "ok" otherwise. The length is boundary.len(), in bytes; the
\* index i is that of boundary.chars().enumerate(), in chars.
\* validate_boundary accepting a space in the last place.
validate_boundary_any_space(boundary) ==
    IF boundary = <<>> \/ Len(boundary) > BOUNDARY_MAX_LEN THEN "length"
    ELSE LET ch == chars(boundary)
         IN  IF \E i \in 1..Len(ch) :
                   ~ \/ is_ascii_alphanumeric(ch[i])
                     \/ ch[i] \in BOUNDARY_PUNCT
                     \/ ch[i] = SP
             THEN "character"
             ELSE "ok"

validate_boundary(boundary) ==
    IF boundary = <<>> \/ Len(boundary) > BOUNDARY_MAX_LEN THEN "length"
    ELSE LET ch == chars(boundary)
         IN  IF \E i \in 1..Len(ch) :
                   ~ \/ is_ascii_alphanumeric(ch[i])
                     \/ ch[i] \in BOUNDARY_PUNCT
                     \/ ch[i] = SP /\ i - 1 # Len(boundary) - 1
             THEN "character"
             ELSE "ok"

\* form_data_content_type with '/' left out of the characters that ask for quotes.
form_data_content_type_slash(w) ==
    LET specials == {40, 41, 60, 62, 64, 44, 59, 58, DQUOTE, 91, 93, 63, EQUALS, SP}
        \* "multipart/form-data; boundary="
        prefix == <<109, 117, 108, 116, 105, 112, 97, 114, 116, 47, 102, 111, 114, 109,
                    45, 100, 97, 116, 97, 59, 32, 98, 111, 117, 110, 100, 97, 114, 121, 61>>
        ch == chars(w.boundary)
    IN  IF \E i \in 1..Len(ch) : ch[i] \in specials
        THEN prefix \o <<DQUOTE>> \o w.boundary \o <<DQUOTE>>
        ELSE prefix \o w.boundary

\* Writer::form_data_content_type.
form_data_content_type(w) ==
    LET specials == {40, 41, 60, 62, 64, 44, 59, 58, DQUOTE, SLASH, 91, 93, 63, EQUALS, SP}
        \* "multipart/form-data; boundary="
        prefix == <<109, 117, 108, 116, 105, 112, 97, 114, 116, 47, 102, 111, 114, 109,
                    45, 100, 97, 116, 97, 59, 32, 98, 111, 117, 110, 100, 97, 114, 121, 61>>
        ch == chars(w.boundary)
    IN  IF \E i \in 1..Len(ch) : ch[i] \in specials
        THEN prefix \o <<DQUOTE>> \o w.boundary \o <<DQUOTE>>
        ELSE prefix \o w.boundary

\* escape_quotes: s.replace('\\', "\\\\").replace('"', "\\\"").
escape_quotes(s) ==
    Concat([i \in 1..Len(s) |->
              IF s[i] = BACKSLASH THEN <<BACKSLASH, BACKSLASH>>
              ELSE IF s[i] = DQUOTE THEN <<BACKSLASH, DQUOTE>>
              ELSE <<s[i]>>])

\* The keys of a header mapping in descending order.
SortedKeys_descending(K) ==
    [r \in 1..Cardinality(K) |->
        CHOOSE k \in K : Cardinality({j \in K : BytesLess(k, j)}) = r - 1]

\* The keys of a header mapping in ascending String order (keys.sort()).
RECURSIVE SortedKeys(_)
SortedKeys(K) ==
    IF K = {} THEN <<>>
    ELSE LET m == CHOOSE k \in K : \A j \in K \ {k} : BytesLess(k, j)
         IN  <<m>> \o SortedKeys(K \ {m})

\* One "key: value\r\n" line per value of a key.
HeaderLines(key, values) ==
    Concat([i \in 1..Len(values) |-> key \o <<COLON, SP>> \o values[i] \o CRLF])

\* The bytes create_part sends to the sink.
create_part_bytes(w, headers) ==
    LET keys == SortedKeys(DOMAIN headers)
    IN  (IF w.has_parts THEN CRLF ELSE <<>>)
        \o <<DASH, DASH>> \o w.boundary \o CRLF
        \o Concat([i \in 1..Len(keys) |-> HeaderLines(keys[i], headers[keys[i]])])
        \o CRLF

\* The bytes close sends to the sink.
close_bytes(w) ==
    (IF w.has_parts THEN CRLF ELSE <<>>)
    \o <<DASH, DASH>> \o w.boundary \o <<DASH, DASH>> \o CRLF

\* "Content-Disposition"
HDR_CONTENT_DISPOSITION ==
    <<67, 111, 110, 116, 101, 110, 116, 45, 68, 105, 115, 112, 111, 115, 105, 116, 105, 111, 110>>

\* "Content-Type"
HDR_CONTENT_TYPE == <<67, 111, 110, 116, 101, 110, 116, 45, 84, 121, 112, 101>>

\* "application/octet-stream"
OCTET_STREAM ==
    <<97, 112, 112, 108, 105, 99, 97, 116, 105, 111, 110, 47, 111, 99, 116, 101, 116,
      45, 115, 116, 114, 101, 97, 109>>

\* "form-data; name=\""
FORM_DATA_NAME == <<102, 111, 114, 109, 45, 100, 97, 116, 97, 59, 32, 110, 97, 109, 101, 61, 34>>

\* "\"; filename=\""
FILENAME_PARAM == <<34, 59, 32, 102, 105, 108, 101, 110, 97, 109, 101, 61, 34>>

\* The header mapping create_form_file builds.
form_file_headers(fieldname, filename) ==
    (HDR_CONTENT_DISPOSITION :>
        <<FORM_DATA_NAME \o escape_quotes(fieldname) \o FILENAME_PARAM
          \o escape_quotes(filename) \o <<DQUOTE>> >>)
    @@ (HDR_CONTENT_TYPE :> <<OCTET_STREAM>>)

\* The header mapping create_form_field builds.
form_field_headers(fieldname) ==
    (HDR_CONTENT_DISPOSITION :>
        <<FORM_DATA_NAME \o escape_quotes(fieldname) \o <<DQUOTE>> >>)

----------------------------------------------------------------------------
(* Multipart Reader: src/src/multipart/reader.rs *)

\* The capacity of the Reader's BufReader.
PEEK_BUFFER_SIZE == 4096

\* 10 << 20
MAX_MIME_HEADER_SIZE == 10485760

MAX_MIME_HEADERS == 10000

\* 32 * 1024 * 1024, the limit of read_part_data.
MAX_PART_BODY_SIZE == 33554432

\* The byte source hands the BufReader at most PEEK_BUFFER_SIZE bytes per read, and
\* never bytes beyond the next position of src.cuts (a source such as a socket
\* delivers what has arrived; a Cursor has no cuts).  The fill that starts at
\* offset from ends here.
FillEnd(src, from) ==
    LET c == {x \in src.cuts : x > from}
        e == Min(from + PEEK_BUFFER_SIZE, Len(src.data))
    IN  IF c = {} THEN e ELSE Min(SetMin(c), e)

\* BufReader refills only when its buffer is empty, so fills are contiguous from
\* offset 0: the end of the fill that holds the byte after pos (pos < Len(src.data)).
RECURSIVE BufEnd(_, _, _)
BufEnd(src, from, pos) ==
    LET e == FillEnd(src, from)
    IN  IF pos < e THEN e ELSE BufEnd(src, e, pos)

\* fill_buf: the buffered bytes not yet consumed, after a refill if there were none.
fill_buf(src, pos) ==
    IF pos >= Len(src.data) THEN <<>>
    ELSE SubSeq(src.data, pos + 1, BufEnd(src, 0, pos))

\* read_until(b'\n'): the offset after the line that starts at pos; the line runs to
\* the first LF, across fills, or to the end of the stream.
read_until(src, pos) ==
    LET I == {i \in (pos + 1)..Len(src.data) : src.data[i] = LF}
    IN  IF I = {} THEN Len(src.data) ELSE SetMin(I)

\* Reader::new.
new_reader(boundary) ==
    LET b == <<CR, LF, DASH, DASH>> \o boundary \o <<DASH, DASH>>
    IN  [boundary |-> boundary,
         nl |-> SubSeq(b, 1, 2),
         nl_dash_boundary |-> SubSeq(b, 1, Len(b) - 2),
         dash_boundary_dash |-> SubSeq(b, 3, Len(b)),
         dash_boundary |-> SubSeq(b, 3, Len(b) - 2),
         parts_read |-> 0,
         pos |-> 0]

RECURSIVE skip_lwsp_char(_)
skip_lwsp_char(b) ==
    IF b # <<>> /\ (b[1] = SP \/ b[1] = HT) THEN skip_lwsp_char(Tail(b)) ELSE b

\* is_final_boundary taking the empty line read at the end of the stream for a
\* terminal boundary.
is_final_boundary_at_eof(rd, line) ==
    IF ~StartsWith(line, rd.dash_boundary_dash) THEN line = <<>>
    ELSE LET rest == skip_lwsp_char(Drop(line, Len(rd.dash_boundary_dash)))
         IN  rest = <<>> \/ rest = rd.nl

is_final_boundary(rd, line) ==
    IF ~StartsWith(line, rd.dash_boundary_dash) THEN FALSE
    ELSE LET rest == skip_lwsp_char(Drop(line, Len(rd.dash_boundary_dash)))
         IN  rest = <<>> \/ rest = rd.nl

\* is_boundary_delimiter_line without the switch of nl to LF.
is_boundary_delimiter_line_crlf(rd, line) ==
    IF ~StartsWith(line, rd.dash_boundary) THEN [is |-> FALSE, rd |-> rd]
    ELSE LET rest == skip_lwsp_char(Drop(line, Len(rd.dash_boundary)))
         IN  [is |-> rest = rd.nl, rd |-> rd]

\* is_boundary_delimiter_line switching nl to LF at any delimiter line, not only the
\* first.
is_boundary_delimiter_line_always(rd, line) ==
    IF ~StartsWith(line, rd.dash_boundary) THEN [is |-> FALSE, rd |-> rd]
    ELSE LET rest == skip_lwsp_char(Drop(line, Len(rd.dash_boundary)))
             rd2 == IF Len(rest) = 1 /\ rest[1] = LF
                    THEN [rd EXCEPT !.nl = <<LF>>,
                                    !.nl_dash_boundary = <<LF>> \o rd.dash_boundary]
                    ELSE rd
         IN  [is |-> rest = rd2.nl, rd |-> rd2]

\* is_boundary_delimiter_line: the answer, and the Reader after it (the first
\* delimiter line may switch nl to LF).
is_boundary_delimiter_line(rd, line) ==
    IF ~StartsWith(line, rd.dash_boundary) THEN [is |-> FALSE, rd |-> rd]
    ELSE LET rest == skip_lwsp_char(Drop(line, Len(rd.dash_boundary)))
             rd2 == IF rd.parts_read = 0 /\ Len(rest) = 1 /\ rest[1] = LF
                    THEN [rd EXCEPT !.nl = <<LF>>,
                                    !.nl_dash_boundary = <<LF>> \o rd.dash_boundary]
                    ELSE rd
         IN  [is |-> rest = rd2.nl, rd |-> rd2]

\* parse_header_line without the trim of the value.
parse_header_line_untrimmed(line0) ==
    LET line == trim_end_matches(trim_end_matches(line0, LF), CR)
        colon_pos == IndexOf(line, COLON)
    IN  IF colon_pos = 0 THEN <<>>
        ELSE <<trim(Take(line, colon_pos - 1)), Drop(line, colon_pos)>>

\* parse_header_line: <<key, value>>, or <<>> for a line without a colon.
parse_header_line(line0) ==
    LET line == trim_end_matches(trim_end_matches(line0, LF), CR)
        colon_pos == IndexOf(line, COLON)
    IN  IF colon_pos = 0 THEN <<>>
        ELSE <<trim(Take(line, colon_pos - 1)), trim(Drop(line, colon_pos))>>

\* The push of a header value with every key holding its latest value only.
header_push_latest(header, key, value) ==
    [k \in DOMAIN header \cup {key} |-> IF k = key THEN <<value>> ELSE header[k]]

\* header.entry(key).or_insert_with(Vec::new).push(value)
header_push(header, key, value) ==
    IF key \in DOMAIN header
    THEN [header EXCEPT ![key] = Append(@, value)]
    ELSE [k \in DOMAIN header \cup {key} |->
            IF k = key THEN <<value>> ELSE header[k]]

\* The accounting of read_mime_header with the limits reached one early.
read_mime_header_step_early(line_len, is_end, total_size, header_count) ==
    IF total_size + line_len >= MAX_MIME_HEADER_SIZE
    THEN [status |-> "MessageTooLarge", total_size |-> total_size + line_len,
          header_count |-> header_count]
    ELSE IF is_end
    THEN [status |-> "done", total_size |-> total_size + line_len,
          header_count |-> header_count]
    ELSE IF header_count + 1 >= MAX_MIME_HEADERS
    THEN [status |-> "MessageTooLarge", total_size |-> total_size + line_len,
          header_count |-> header_count + 1]
    ELSE [status |-> "more", total_size |-> total_size + line_len,
          header_count |-> header_count + 1]

\* The accounting of one turn of the loop of read_mime_header, for a line of
\* line_len bytes; is_end says the line is "\r\n", "\n" or empty.
\* status: "MessageTooLarge", "done" (the block has ended) or "more".
read_mime_header_step(line_len, is_end, total_size, header_count) ==
    IF total_size + line_len > MAX_MIME_HEADER_SIZE
    THEN [status |-> "MessageTooLarge", total_size |-> total_size + line_len,
          header_count |-> header_count]
    ELSE IF is_end
    THEN [status |-> "done", total_size |-> total_size + line_len,
          header_count |-> header_count]
    ELSE IF header_count + 1 > MAX_MIME_HEADERS
    THEN [status |-> "MessageTooLarge", total_size |-> total_size + line_len,
          header_count |-> header_count + 1]
    ELSE [status |-> "more", total_size |-> total_size + line_len,
          header_count |-> header_count + 1]

\* The loop of read_mime_header from offset pos.
RECURSIVE read_mime_header_loop(_, _, _, _, _)
read_mime_header_loop(src, pos, header, total_size, header_count) ==
    LET e == read_until(src, pos)
        line == SubSeq(src.data, pos + 1, e)
        kv == parse_header_line(line)
        st == read_mime_header_step(Len(line), line = CRLF \/ line = <<LF>> \/ line = <<>>,
                                    total_size, header_count)
    IN  IF st.status = "MessageTooLarge" THEN [err |-> "MessageTooLarge", pos |-> e]
        ELSE IF st.status = "done" THEN [err |-> "", header |-> header, pos |-> e]
        ELSE read_mime_header_loop(
                 src, e,
                 IF kv = <<>> THEN header ELSE header_push(header, to_lowercase(kv[1]), kv[2]),
                 st.total_size, st.header_count)

read_mime_header(src, pos) == read_mime_header_loop(src, pos, <<>>, 0, 0)

\* The boundary test of read_part_data on one buffered line.
is_part_data_boundary(line_buf, dash_boundary, nl_dash_boundary) ==
    \/ StartsWith(line_buf, dash_boundary)
    \/ StartsWith(line_buf, nl_dash_boundary)
    \/ StartsWith(line_buf, CRLF) /\ StartsWith(Drop(line_buf, 2), dash_boundary)
    \/ StartsWith(line_buf, <<LF>>) /\ StartsWith(Drop(line_buf, 1), dash_boundary)

\* The accounting of read_part_data with the limit reached one byte early.
read_part_data_step_early(len, at_boundary, total_bytes) ==
    IF len = 0 \/ at_boundary
    THEN [status |-> "done", total_bytes |-> total_bytes]
    ELSE IF total_bytes + len >= MAX_PART_BODY_SIZE
    THEN [status |-> "MessageTooLarge", total_bytes |-> total_bytes + len]
    ELSE [status |-> "more", total_bytes |-> total_bytes + len]

\* The accounting of one turn of the loop of read_part_data: len bytes are buffered
\* up to the first LF (or in all when there is none); at_boundary says they are a
\* line that passes the boundary test.
\* status: "MessageTooLarge", "done" (end of stream or boundary) or "more".
read_part_data_step(len, at_boundary, total_bytes) ==
    IF len = 0 \/ at_boundary
    THEN [status |-> "done", total_bytes |-> total_bytes]
    ELSE IF total_bytes + len > MAX_PART_BODY_SIZE
    THEN [status |-> "MessageTooLarge", total_bytes |-> total_bytes + len]
    ELSE [status |-> "more", total_bytes |-> total_bytes + len]

\* The loop of read_part_data from offset pos, with the bytes gathered so far.
RECURSIVE read_part_data_loop(_, _, _, _, _)
read_part_data_loop(src, pos, data, dash_boundary, nl_dash_boundary) ==
    LET buf == fill_buf(src, pos)
        newline_pos == IndexOf(buf, LF)
        line_buf == Take(buf, newline_pos)
        taken == IF newline_pos # 0 THEN line_buf ELSE buf
        st == read_part_data_step(
                  Len(taken),
                  newline_pos # 0 /\ is_part_data_boundary(line_buf, dash_boundary, nl_dash_boundary),
                  Len(data))
    IN  IF st.status = "done" THEN [err |-> "", data |-> data, pos |-> pos]
        ELSE IF st.status = "MessageTooLarge"
        THEN [err |-> "MessageTooLarge", pos |-> pos + Len(taken)]
        ELSE read_part_data_loop(src, pos + Len(taken), data \o taken,
                                 dash_boundary, nl_dash_boundary)

\* read_part_data failing when the stream ends before a boundary line.
read_part_data_to_boundary(src, pos, dash_boundary, nl_dash_boundary) ==
    LET d == read_part_data_loop(src, pos, <<>>, dash_boundary, nl_dash_boundary)
    IN  IF d.err = "" /\ d.pos = Len(src.data)
        THEN [err |-> "Io", pos |-> d.pos]
        ELSE d

read_part_data(src, pos, dash_boundary, nl_dash_boundary) ==
    read_part_data_loop(src, pos, <<>>, dash_boundary, nl_dash_boundary)

\* Part::new: the header block, then the body.
part_new(src, pos, dash_boundary, nl_dash_boundary) ==
    LET h == read_mime_header(src, pos)
        d == read_part_data(src, h.pos, dash_boundary, nl_dash_boundary)
    IN  IF h.err # "" THEN [err |-> h.err, pos |-> h.pos]
        ELSE IF d.err # "" THEN [err |-> d.err, pos |-> d.pos]
        ELSE [err |-> "", header |-> h.header, data |-> d.data, pos |-> d.pos]

\* The loop of next_part_internal refusing a line before the first delimiter line.
RECURSIVE next_part_loop_strict(_, _, _)
next_part_loop_strict(rd, src, expect_new_part) ==
    LET e == read_until(src, rd.pos)
        line == SubSeq(src.data, rd.pos + 1, e)
        dl == is_boundary_delimiter_line(rd, line)
        rd1 == [dl.rd EXCEPT !.pos = e]
        part == part_new(src, e, rd1.dash_boundary, rd1.nl_dash_boundary)
        seen == [line |-> line, at |-> rd.pos, nl |-> rd1.nl]
    IN  IF line = <<>>
        THEN IF is_final_boundary(rd, line)
             THEN [rd |-> rd, res |-> [kind |-> "end"] @@ seen]
             ELSE [rd |-> rd, res |-> [kind |-> "err", err |-> "Io"] @@ seen]
        ELSE IF dl.is
        THEN IF part.err # ""
             THEN [rd |-> [rd1 EXCEPT !.parts_read = @ + 1, !.pos = part.pos],
                   res |-> [kind |-> "err", err |-> part.err] @@ seen]
             ELSE [rd |-> [rd1 EXCEPT !.parts_read = @ + 1, !.pos = part.pos],
                   res |-> [kind |-> "part", header |-> part.header,
                            body |-> part.data] @@ seen]
        ELSE IF is_final_boundary(rd1, line)
        THEN [rd |-> rd1, res |-> [kind |-> "end"] @@ seen]
        ELSE IF expect_new_part
        THEN [rd |-> rd1, res |-> [kind |-> "err", err |-> "Multipart"] @@ seen]
        ELSE IF rd1.parts_read = 0
        THEN [rd |-> rd1, res |-> [kind |-> "err", err |-> "Multipart"] @@ seen]
        ELSE IF line = rd1.nl
        THEN next_part_loop_strict(rd1, src, TRUE)
        ELSE [rd |-> rd1, res |-> [kind |-> "err", err |-> "Multipart"] @@ seen]

\* The loop of next_part_internal: the Reader after the call and the call's result.
\* A result records, beside what the caller receives, the last line the call read
\* (line, at offset at) and the line terminator then in force.
RECURSIVE next_part_loop(_, _, _)
next_part_loop(rd, src, expect_new_part) ==
    LET e == read_until(src, rd.pos)
        line == SubSeq(src.data, rd.pos + 1, e)
        dl == is_boundary_delimiter_line(rd, line)
        rd1 == [dl.rd EXCEPT !.pos = e]
        part == part_new(src, e, rd1.dash_boundary, rd1.nl_dash_boundary)
        seen == [line |-> line, at |-> rd.pos, nl |-> rd1.nl]
    IN  IF line = <<>>
        THEN IF is_final_boundary(rd, line)
             THEN [rd |-> rd, res |-> [kind |-> "end"] @@ seen]
             ELSE [rd |-> rd, res |-> [kind |-> "err", err |-> "Io"] @@ seen]
        ELSE IF dl.is
        THEN IF part.err # ""
             THEN [rd |-> [rd1 EXCEPT !.parts_read = @ + 1, !.pos = part.pos],
                   res |-> [kind |-> "err", err |-> part.err] @@ seen]
             ELSE [rd |-> [rd1 EXCEPT !.parts_read = @ + 1, !.pos = part.pos],
                   res |-> [kind |-> "part", header |-> part.header,
                            body |-> part.data] @@ seen]
        ELSE IF is_final_boundary(rd1, line)
        THEN [rd |-> rd1, res |-> [kind |-> "end"] @@ seen]
        ELSE IF expect_new_part
        THEN [rd |-> rd1, res |-> [kind |-> "err", err |-> "Multipart"] @@ seen]
        ELSE IF rd1.parts_read = 0
        THEN next_part_loop(rd1, src, expect_new_part)
        ELSE IF line = rd1.nl
        THEN next_part_loop(rd1, src, TRUE)
        ELSE [rd |-> rd1, res |-> [kind |-> "err", err |-> "Multipart"] @@ seen]

\* next_part_internal without the test of an empty boundary.
next_part_internal_unchecked(rd, src) ==
    next_part_loop(rd, src, FALSE)

\* next_part_internal.
next_part_internal(rd, src) ==
    IF rd.boundary = <<>>
    THEN [rd |-> rd,
          res |-> [kind |-> "err", err |-> "Multipart", line |-> <<>>, at |-> rd.pos,
                   nl |-> rd.nl]]
    ELSE next_part_loop(rd, src, FALSE)

----------------------------------------------------------------------------
(* Part: src/src/multipart/reader.rs *)

\* str::split(c): the segments of s between the occurrences of c.
RECURSIVE Split(_, _)
Split(s, c) ==
    LET i == IndexOf(s, c)
    IN  IF i = 0 THEN <<s>> ELSE <<Take(s, i - 1)>> \o Split(Drop(s, i), c)

\* The quote removal of parse_disposition.
unquote(val) ==
    IF StartsWith(val, <<DQUOTE>>) /\ EndsWith(val, <<DQUOTE>>) /\ Len(val) >= 2
    THEN SubSeq(val, 2, Len(val) - 1)
    ELSE val

\* The parameter loop of parse_disposition over the segments of rest.
RECURSIVE disposition_params(_, _)
disposition_params(segs, params) ==
    IF segs = <<>> THEN params
    ELSE LET param == trim(Head(segs))
             eq == IndexOf(param, EQUALS)
             key == to_lowercase(trim(Take(param, eq - 1)))
             val == unquote(trim(Drop(param, eq)))
         IN  IF param = <<>> \/ eq = 0 THEN disposition_params(Tail(segs), params)
             ELSE disposition_params(
                      Tail(segs),
                      [k \in DOMAIN params \cup {key} |-> IF k = key THEN val ELSE params[k]])

\* parse_disposition: [disposition, params].
parse_disposition(value) ==
    LET semi == IndexOf(value, SEMI)
        disposition == IF semi = 0 THEN value ELSE Take(value, semi - 1)
        rest == IF semi = 0 THEN <<>> ELSE Drop(value, semi)
    IN  [disposition |-> to_lowercase(trim(disposition)),
         params |-> disposition_params(Split(rest, SEMI), <<>>)]

\* "content-disposition"
KEY_CONTENT_DISPOSITION ==
    <<99, 111, 110, 116, 101, 110, 116, 45, 100, 105, 115, 112, 111, 115, 105, 116, 105, 111, 110>>

\* "form-data"
FORM_DATA == <<102, 111, 114, 109, 45, 100, 97, 116, 97>>

\* "name"
PARAM_NAME == <<110, 97, 109, 101>>

\* "filename"
PARAM_FILENAME == <<102, 105, 108, 101, 110, 97, 109, 101>>

\* parse_content_disposition: what the Part caches on first access.
parse_content_disposition(header) ==
    IF KEY_CONTENT_DISPOSITION \in DOMAIN header /\ header[KEY_CONTENT_DISPOSITION] # <<>>
    THEN parse_disposition(header[KEY_CONTENT_DISPOSITION][1])
    ELSE [disposition |-> <<>>, params |-> <<>>]

\* Part::form_name: <<name>>, or <<>> for None.
form_name(header) ==
    LET d == parse_content_disposition(header)
    IN  IF d.disposition # FORM_DATA THEN <<>>
        ELSE IF PARAM_NAME \in DOMAIN d.params THEN <<d.params[PARAM_NAME]>>
        ELSE <<>>

\* Path::file_name on a Unix path: the last segment that is neither empty nor ".",
\* unless there is none or it is ".."; <<>> for None.
path_file_name(f) ==
    LET segs == Split(f, SLASH)
        I == {i \in 1..Len(segs) : segs[i] # <<>> /\ segs[i] # <<DOT>>}
        last == segs[CHOOSE i \in I : \A j \in I : j <= i]
    IN  IF I = {} THEN <<>>
        ELSE IF last = <<DOT, DOT>> THEN <<>>
        ELSE <<last>>

\* Part::file_name: <<name>>, or <<>> for None.
file_name(header) ==
    LET d == parse_content_disposition(header)
        f == d.params[PARAM_FILENAME]
    IN  IF PARAM_FILENAME \notin DOMAIN d.params THEN <<>>
        ELSE IF path_file_name(f) = <<>> THEN <<f>>
        ELSE path_file_name(f)

----------------------------------------------------------------------------
(* Quoted-printable Writer: src/src/quotedprintable/writer.rs *)

LINE_MAX_LEN == 76

\* The capacity of the line buffer: line: [u8; 78].
LINE_BUF_LEN == 78

\* "0123456789ABCDEF"
UPPER_HEX == <<48, 49, 50, 51, 52, 53, 54, 55, 56, 57, 65, 66, 67, 68, 69, 70>>

is_whitespace(b) == b = SP \/ b = HT

\* The escape of b with lower-case hex digits.
hex_escape_lower(b) ==
    LET lower == <<48, 49, 50, 51, 52, 53, 54, 55, 56, 57, 97, 98, 99, 100, 101, 102>>
    IN  <<EQUALS, lower[(b \div 16) + 1], lower[(b % 16) + 1]>>

\* '=' and the two upper-case hex digits of b.
hex_escape(b) == <<EQUALS, UPPER_HEX[(b \div 16) + 1], UPPER_HEX[(b % 16) + 1]>>

\* "=\r\n"
SOFT_BREAK == <<EQUALS, CR, LF>>

\* Writer::new.  line holds the first line_len bytes of the line buffer.
\* peak is not a field of the struct: it records the largest number of cells of the
\* line buffer that have been in use (the largest line_len, one more than the largest
\* index read or written).
new_qp_writer ==
    [binary |-> FALSE, line |-> <<>>, pending_cr |-> FALSE, open |-> TRUE, peak |-> 0]

\* w with the length of its line buffer noted in peak.
note_peak(w) == [w EXCEPT !.peak = IF Len(w.line) > @ THEN Len(w.line) ELSE @]

\* The inner loop of poll_write without the test that ends it at LINE_MAX_LEN - 3.
RECURSIVE write_plain_unbroken(_, _, _)
write_plain_unbroken(w, remaining, plain_written) ==
    IF plain_written = Len(remaining) THEN [w |-> w, plain_written |-> plain_written]
    ELSE LET b == remaining[plain_written + 1]
             w1 == IF b = CR THEN [w EXCEPT !.pending_cr = TRUE] ELSE w
         IN  IF ~w.binary /\ (b = LF \/ b = CR)
             THEN IF w.pending_cr /\ b = LF
                  THEN write_plain_unbroken([w EXCEPT !.pending_cr = FALSE], remaining,
                                            plain_written + 1)
                  ELSE IF Len(w1.line) + 2 <= LINE_MAX_LEN
                  THEN [w |-> [w1 EXCEPT !.line = @ \o CRLF], plain_written |-> plain_written + 1]
                  ELSE [w |-> w1, plain_written |-> plain_written]
             ELSE IF (b >= BANG /\ b <= TILDE /\ b # EQUALS) \/ is_whitespace(b)
             THEN write_plain_unbroken([w EXCEPT !.line = Append(@, b), !.pending_cr = FALSE],
                                       remaining, plain_written + 1)
             ELSE IF Len(w.line) + 3 <= LINE_MAX_LEN - 1
             THEN write_plain_unbroken([w EXCEPT !.line = @ \o <<EQUALS, 48, 48>>],
                                       remaining, plain_written + 1)
             ELSE [w |-> w, plain_written |-> plain_written]

\* The inner loop of poll_write with CR and LF taken as line endings in binary mode too.
RECURSIVE write_plain_text(_, _, _)
write_plain_text(w, remaining, plain_written) ==
    IF plain_written = Len(remaining) THEN [w |-> w, plain_written |-> plain_written]
    ELSE LET b == remaining[plain_written + 1]
             w1 == IF b = CR THEN [w EXCEPT !.pending_cr = TRUE] ELSE w
         IN  IF Len(w.line) >= LINE_MAX_LEN - 3 THEN [w |-> w, plain_written |-> plain_written]
             ELSE IF b = LF \/ b = CR
             THEN IF w.pending_cr /\ b = LF
                  THEN write_plain_text([w EXCEPT !.pending_cr = FALSE], remaining, plain_written + 1)
                  ELSE IF Len(w1.line) + 2 <= LINE_MAX_LEN
                  THEN [w |-> [w1 EXCEPT !.line = @ \o CRLF], plain_written |-> plain_written + 1]
                  ELSE [w |-> w1, plain_written |-> plain_written]
             ELSE IF b >= BANG /\ b <= TILDE /\ b # EQUALS
             THEN write_plain_text([w EXCEPT !.line = Append(@, b), !.pending_cr = FALSE],
                              remaining, plain_written + 1)
             ELSE IF is_whitespace(b)
             THEN write_plain_text([w EXCEPT !.line = Append(@, b), !.pending_cr = FALSE],
                              remaining, plain_written + 1)
             ELSE IF Len(w.line) + 3 <= LINE_MAX_LEN - 1
             THEN write_plain_text([w EXCEPT !.line = @ \o hex_escape(b)], remaining, plain_written + 1)
             ELSE [w |-> w, plain_written |-> plain_written]

\* The inner loop of poll_write (for &b in remaining): the Writer after it and the
\* number of bytes of remaining it took.
RECURSIVE write_plain(_, _, _)
write_plain(w, remaining, plain_written) ==
    IF plain_written = Len(remaining) THEN [w |-> w, plain_written |-> plain_written]
    ELSE LET b == remaining[plain_written + 1]
             w1 == IF b = CR THEN [w EXCEPT !.pending_cr = TRUE] ELSE w
         IN  IF Len(w.line) >= LINE_MAX_LEN - 3 THEN [w |-> w, plain_written |-> plain_written]
             ELSE IF ~w.binary /\ (b = LF \/ b = CR)
             THEN IF w.pending_cr /\ b = LF
                  THEN write_plain([w EXCEPT !.pending_cr = FALSE], remaining, plain_written + 1)
                  ELSE IF Len(w1.line) + 2 <= LINE_MAX_LEN
                  THEN [w |-> [w1 EXCEPT !.line = @ \o CRLF], plain_written |-> plain_written + 1]
                  ELSE [w |-> w1, plain_written |-> plain_written]
             ELSE IF b >= BANG /\ b <= TILDE /\ b # EQUALS
             THEN write_plain([w EXCEPT !.line = Append(@, b), !.pending_cr = FALSE],
                              remaining, plain_written + 1)
             ELSE IF is_whitespace(b)
             THEN write_plain([w EXCEPT !.line = Append(@, b), !.pending_cr = FALSE],
                              remaining, plain_written + 1)
             ELSE IF Len(w.line) + 3 <= LINE_MAX_LEN - 1
             THEN write_plain([w EXCEPT !.line = @ \o hex_escape(b)], remaining, plain_written + 1)
             ELSE [w |-> w, plain_written |-> plain_written]

\* this.inner.poll_write(&this.line[..line_len]) on a sink that is "ready" (it takes
\* all the bytes), "short" (it has room for one byte) or "pending": the number of
\* bytes taken, -1 for Poll::Pending.
inner_poll_write(line, resp) ==
    IF resp = "pending" THEN -1
    ELSE IF resp = "short" THEN Min(1, Len(line))
    ELSE Len(line)

\* The outer loop of poll_write, resp being the condition of the sink during the
\* call: the Writer, the sink, and Ready(Ok(n)), Pending or Ready(Err(WriteZero)).
RECURSIVE poll_write_loop(_, _, _, _, _)
poll_write_loop(w, out, remaining, total_written, resp) ==
    IF remaining = <<>> THEN [w |-> w, out |-> out, n |-> total_written, kind |-> "ok"]
    ELSE LET full == Len(w.line) > 0 /\ Len(w.line) >= LINE_MAX_LEN - 3
             taken == inner_poll_write(w.line, resp)
             w1 == IF full THEN [w EXCEPT !.line = <<>>] ELSE w
             out1 == IF full THEN out \o w.line ELSE out
             p == write_plain(w1, remaining, 0)
             rest == Drop(remaining, p.plain_written)
             w2 == IF p.plain_written = 0 /\ rest # <<>> /\ Len(p.w.line) > 0
                   THEN note_peak([p.w EXCEPT !.line = @ \o SOFT_BREAK])
                   ELSE note_peak(p.w)
         IN  IF full /\ taken < 0
             THEN [w |-> w, out |-> out, n |-> 0, kind |-> "pending"]
             ELSE IF full /\ taken # Len(w.line)
             THEN [w |-> w, out |-> out \o Take(w.line, taken), n |-> 0, kind |-> "err"]
             ELSE poll_write_loop(w2, out1, rest, total_written + p.plain_written, resp)

poll_write(w, out, buf, resp) == poll_write_loop(w, out, buf, 0, resp)

\* poll_flush: the line buffer goes to the sink (whose own poll_flush is ready).
poll_flush(w, out, resp) ==
    LET taken == inner_poll_write(w.line, resp)
    IN  IF Len(w.line) = 0 THEN [w |-> w, out |-> out, kind |-> "ok"]
        ELSE IF taken < 0 THEN [w |-> w, out |-> out, kind |-> "pending"]
        ELSE IF taken # Len(w.line)
        THEN [w |-> w, out |-> out \o Take(w.line, taken), kind |-> "err"]
        ELSE [w |-> [w EXCEPT !.line = <<>>], out |-> out \o w.line, kind |-> "ok"]

\* The first block of poll_shutdown: a trailing space or tab in the line buffer is
\* replaced by its escape.
escape_trailing_whitespace(w) ==
    LET last_byte == w.line[Len(w.line)]
        cut == Take(w.line, Len(w.line) - 1)
    IN  IF Len(w.line) > 0 /\ is_whitespace(last_byte)
        THEN IF Len(cut) + 3 <= LINE_MAX_LEN - 1
             THEN note_peak([w EXCEPT !.line = cut \o hex_escape(last_byte)])
             ELSE note_peak([w EXCEPT !.line = cut \o SOFT_BREAK \o hex_escape(last_byte)])
        ELSE w

\* poll_shutdown (Writer::close).
poll_shutdown(w, out, resp) ==
    LET f == poll_flush(escape_trailing_whitespace(w), out, resp)
    IN  IF f.kind = "ok"
        THEN [w |-> [f.w EXCEPT !.open = FALSE], out |-> f.out, kind |-> "ok"]
        ELSE f

----------------------------------------------------------------------------
(* Quoted-printable Reader: src/src/quotedprintable/reader.rs *)

\* decode_hex_digit without the lower-case digits.
decode_hex_digit_upper(digit) ==
    IF digit >= 48 /\ digit <= 57 THEN digit - 48
    ELSE IF digit >= 65 /\ digit <= 70 THEN digit - 65 + 10
    ELSE -1

\* decode_hex_digit: the value, or -1 for an invalid digit.
decode_hex_digit(digit) ==
    IF digit >= 48 /\ digit <= 57 THEN digit - 48
    ELSE IF digit >= 65 /\ digit <= 70 THEN digit - 65 + 10
    ELSE IF digit >= 97 /\ digit <= 102 THEN digit - 97 + 10
    ELSE -1

\* decode_hex_byte: the byte, or -1.
decode_hex_byte(high, low) ==
    IF decode_hex_digit(high) < 0 \/ decode_hex_digit(low) < 0 THEN -1
    ELSE decode_hex_digit(high) * 16 + decode_hex_digit(low)

\* The trimming loop of decode_line.
RECURSIVE trim_line_end(_)
trim_line_end(t) ==
    IF t # <<>> /\ t[Len(t)] \in {LF, CR, SP, HT} THEN trim_line_end(Take(t, Len(t) - 1))
    ELSE t

\* The test of decode_line for a byte that is neither '=' nor pushed to the result.
invalid_unescaped(b) ==
    /\ ~(b = HT \/ b = CR \/ (b >= SP /\ b <= TILDE) \/ b >= 128)
    /\ b < SP /\ b # HT /\ b # CR /\ b # LF

\* The decoding loop of decode_line from index i (1-based) with the bytes decoded so
\* far: [err, result].  The iterations up to the next '=' or invalid byte, which
\* each push one byte, are taken in one step.
RECURSIVE decode_content(_, _, _)
decode_content(trimmed, i, result) ==
    LET stops == {j \in i..Len(trimmed) :
                     trimmed[j] = EQUALS \/ invalid_unescaped(trimmed[j])}
        k == SetMin(stops)
        pushed == result \o SubSeq(trimmed, i, k - 1)
    IN  IF stops = {} THEN [err |-> FALSE, result |-> result \o SubSeq(trimmed, i, Len(trimmed))]
        ELSE IF trimmed[k] = EQUALS
        THEN IF k + 2 <= Len(trimmed)
                /\ decode_hex_byte(trimmed[k + 1], trimmed[k + 2]) >= 0
             THEN decode_content(trimmed, k + 3,
                      Append(pushed, decode_hex_byte(trimmed[k + 1], trimmed[k + 2])))
             ELSE decode_content(trimmed, k + 1, Append(pushed, EQUALS))
        ELSE [err |-> TRUE, result |-> pushed]

\* decode_line with CRLF added for every line that ends in LF.
decode_line_crlf(line) ==
    LET has_lf == EndsWith(line, <<LF>>)
        trimmed0 == trim_line_end(line)
        is_soft_break == EndsWith(trimmed0, <<EQUALS>>)
        trimmed == IF is_soft_break THEN Take(trimmed0, Len(trimmed0) - 1) ELSE trimmed0
        d == decode_content(trimmed, 1, <<>>)
    IN  IF d.err THEN d
        ELSE [err |-> FALSE,
              result |-> d.result \o (IF ~is_soft_break /\ has_lf THEN CRLF ELSE <<>>)]

\* decode_line with the line ending added after a soft line break too.
decode_line_hard(line) ==
    LET has_lf == EndsWith(line, <<LF>>)
        has_crlf == EndsWith(line, CRLF)
        trimmed0 == trim_line_end(line)
        is_soft_break == EndsWith(trimmed0, <<EQUALS>>)
        trimmed == IF is_soft_break THEN Take(trimmed0, Len(trimmed0) - 1) ELSE trimmed0
        d == decode_content(trimmed, 1, <<>>)
    IN  IF d.err THEN d
        ELSE [err |-> FALSE,
              result |-> d.result \o (IF has_lf
                                      THEN (IF has_crlf THEN CRLF ELSE <<LF>>)
                                      ELSE <<>>)]

\* decode_line: [err, result].
decode_line(line) ==
    LET has_lf == EndsWith(line, <<LF>>)
        has_crlf == EndsWith(line, CRLF)
        trimmed0 == trim_line_end(line)
        is_soft_break == EndsWith(trimmed0, <<EQUALS>>)
        trimmed == IF is_soft_break THEN Take(trimmed0, Len(trimmed0) - 1) ELSE trimmed0
        d == decode_content(trimmed, 1, <<>>)
    IN  IF d.err THEN d
        ELSE [err |-> FALSE,
              result |-> d.result \o (IF ~is_soft_break /\ has_lf
                                      THEN (IF has_crlf THEN CRLF ELSE <<LF>>)
                                      ELSE <<>>)]

\* Reader::new.  pos counts the bytes of the source consumed and filled the bytes of
\* the source that the BufReader has taken into its buffer; error is <<>> (None) or
\* <<e>> (Some(e)).
new_qp_reader ==
    [line |-> <<>>, line_pos |-> 0, eof |-> FALSE, error |-> <<>>, pos |-> 0, filled |-> 0]

\* The while loop of poll_read over a source that is always ready (a Cursor), with
\* room for n bytes: the Reader after it and the bytes put in the caller's buffer.
RECURSIVE poll_read_loop(_, _, _, _)
poll_read_loop(rd, src, n, output) ==
    IF Len(output) >= n THEN [rd |-> rd, bytes |-> output]
    ELSE IF rd.line_pos < Len(rd.line)
    THEN LET to_copy == Min(Len(rd.line) - rd.line_pos, n - Len(output))
         IN  poll_read_loop([rd EXCEPT !.line_pos = @ + to_copy], src, n,
                            output \o SubSeq(rd.line, rd.line_pos + 1, rd.line_pos + to_copy))
    ELSE LET I == {i \in (rd.pos + 1)..Len(src) : src[i] = LF}
             e == IF I = {} THEN Len(src) ELSE SetMin(I)
             line_buf == SubSeq(src, rd.pos + 1, e)
             rd1 == [rd EXCEPT !.line = <<>>, !.line_pos = 0, !.pos = e,
                               !.eof = @ \/ I = {}]
             d == decode_line(line_buf)
         IN  IF line_buf = <<>> /\ rd1.eof THEN [rd |-> rd1, bytes |-> output]
             ELSE IF line_buf # <<>>
             THEN IF d.err
                  THEN [rd |-> [rd1 EXCEPT !.error = <<"InvalidData">>], bytes |-> output]
                  ELSE poll_read_loop([rd1 EXCEPT !.line = d.result], src, n, output)
             ELSE IF rd1.eof THEN [rd |-> rd1, bytes |-> output]
             ELSE poll_read_loop(rd1, src, n, output)

\* poll_read with a caller's buffer of n free bytes: the Reader after it and what
\* the caller receives.
poll_read(rd, src, n) ==
    IF rd.error # <<>>
    THEN [rd |-> [rd EXCEPT !.error = <<>>], res |-> [kind |-> "err", err |-> rd.error[1]]]
    ELSE LET r == poll_read_loop(rd, src, n, <<>>)
         IN  [rd |-> r.rd, res |-> [kind |-> "ok", bytes |-> r.bytes]]

\* The loop around poll_fill_buf in poll_read, over a source that has delivered the
\* first avail bytes of src so far and ends after the last: the BufReader hands out
\* what is left in its buffer, refills it with what has arrived when it is empty
\* (the sources are shorter than its capacity), reports the end of the stream when
\* all of src is consumed and Pending when nothing has arrived.  line_buf is the
\* local Vec of the call.
RECURSIVE read_line_avail(_, _, _, _)
read_line_avail(rd, src, avail, line_buf) ==
    LET filled == IF rd.pos < rd.filled THEN rd.filled ELSE avail
        I == {i \in (rd.pos + 1)..filled : src[i] = LF}
    IN  IF rd.pos >= filled
        THEN IF avail = Len(src)
             THEN [status |-> "ready", rd |-> [rd EXCEPT !.eof = TRUE], line_buf |-> line_buf]
             ELSE [status |-> "pending", rd |-> rd, line_buf |-> line_buf]
        ELSE IF I # {}
        THEN [status |-> "ready",
              rd |-> [rd EXCEPT !.pos = SetMin(I), !.filled = filled],
              line_buf |-> line_buf \o SubSeq(src, rd.pos + 1, SetMin(I))]
        ELSE read_line_avail([rd EXCEPT !.pos = filled, !.filled = filled], src, avail,
                             line_buf \o SubSeq(src, rd.pos + 1, filled))

\* The while loop of poll_read over such a source: the Reader after it, whether it
\* ended in Pending, and the bytes the call has put in the caller's buffer
\* (buf.advance(written)).
RECURSIVE poll_read_avail_loop(_, _, _, _, _)
poll_read_avail_loop(rd, src, avail, n, output) ==
    IF Len(output) >= n THEN [rd |-> rd, pending |-> FALSE, bytes |-> output]
    ELSE IF rd.line_pos < Len(rd.line)
    THEN LET to_copy == Min(Len(rd.line) - rd.line_pos, n - Len(output))
         IN  poll_read_avail_loop([rd EXCEPT !.line_pos = @ + to_copy], src, avail, n,
                                  output \o SubSeq(rd.line, rd.line_pos + 1,
                                                   rd.line_pos + to_copy))
    ELSE LET l == read_line_avail([rd EXCEPT !.line = <<>>, !.line_pos = 0], src, avail,
                                  <<>>)
             d == decode_line(l.line_buf)
         IN  IF l.status = "pending"
             THEN [rd |-> l.rd, pending |-> TRUE, bytes |-> output]
             ELSE IF l.line_buf = <<>> /\ l.rd.eof
             THEN [rd |-> l.rd, pending |-> FALSE, bytes |-> output]
             ELSE IF l.line_buf # <<>>
             THEN IF d.err
                  THEN [rd |-> [l.rd EXCEPT !.error = <<"InvalidData">>],
                        pending |-> FALSE, bytes |-> output]
                  ELSE poll_read_avail_loop([l.rd EXCEPT !.line = d.result], src, avail,
                                            n, output)
             ELSE IF l.rd.eof THEN [rd |-> l.rd, pending |-> FALSE, bytes |-> output]
             ELSE poll_read_avail_loop(l.rd, src, avail, n, output)

\* poll_read over such a source, with a caller's buffer of n free bytes.
poll_read_avail(rd, src, avail, n) ==
    IF rd.error # <<>>
    THEN [rd |-> [rd EXCEPT !.error = <<>>], res |-> [kind |-> "err", err |-> rd.error[1]]]
    ELSE LET r == poll_read_avail_loop(rd, src, avail, n, <<>>)
         IN  [rd |-> r.rd,
              res |-> [kind |-> IF r.pending THEN "pending" ELSE "ok", bytes |-> r.bytes]]

----------------------------------------------------------------------------
(* The multipart system: a Writer over a Vec<u8>, then a Reader over its bytes *)

\* The calls (create_part, create_form_*, write_field, body writes) made on one Writer.
MaxCalls == 2

\* The next_part calls made on one Reader.
MaxReads == 3

\* The source may end a read up to this many bytes before the end of the message.
MaxCutBack == 1

\* The 30 bytes getrandom may deliver.
RandomBufs == {[i \in 1..BOUNDARY_RANDOM_BYTES |-> (i * 37) % 256]}

\* "b" and "b#": a boundary set_boundary accepts and one it refuses.
BoundaryArgs == {<<98>>, <<98, 35>>}

\* The header mappings passed to create_part:
\*   "Ab: v", "Ab: w"; a key with no value; a value with a leading space.
HeaderArgs ==
    { (<<65, 98>> :> << <<118>>, <<119>> >>),
      (<<88>> :> <<>>),
      (<<88>> :> << <<SP, 118>> >>) }

\* Field names: f, a"b.
FieldNames == {<<102>>, <<97, DQUOTE, 98>>}

\* File names: a;b.
FileNames == {<<97, SEMI, 98>>}

\* Field values of write_field: v.
FieldValues == {<<118>>}

\* The chunks written to a body sink: x, CRLF, and "--" + boundary.
BodyChunks == {"x", "crlf", "dash_boundary"}

BodyChunk(w, chunk) ==
    CASE chunk = "x" -> <<120>>
      [] chunk = "crlf" -> CRLF
      [] chunk = "dash_boundary" -> <<DASH, DASH>> \o w.boundary

Calls == Len(written) + Len(Concat([i \in 1..Len(written) |-> written[i].writes]))

MPInit ==
    /\ \E buf \in RandomBufs :
         writer = [boundary |-> generate_boundary(buf), has_parts |-> FALSE, open |-> TRUE]
    /\ sink = <<>>
    /\ written = <<>>
    /\ reader = NoReader
    /\ source = [data |-> <<>>, cuts |-> {}]
    /\ results = <<>>
    /\ wres = "ok"

\* set_boundary without the test of has_parts.
SetBoundary_after_parts(boundary) ==
    /\ writer.open
    /\ IF validate_boundary(boundary) # "ok"
       THEN wres' = "Multipart" /\ UNCHANGED writer
       ELSE wres' = "ok" /\ writer' = [writer EXCEPT !.boundary = boundary]
    /\ UNCHANGED <<sink, written, reader, source, results>>
    /\ UNCHANGED <<qpvars, limvars, tasks, qavail>>

\* Writer::set_boundary.
SetBoundary(boundary) ==
    /\ writer.open
    /\ IF writer.has_parts
       THEN wres' = "Multipart" /\ UNCHANGED writer
       ELSE IF validate_boundary(boundary) # "ok"
       THEN wres' = "Multipart" /\ UNCHANGED writer
       ELSE wres' = "ok" /\ writer' = [writer EXCEPT !.boundary = boundary]
    /\ UNCHANGED <<sink, written, reader, source, results>>
    /\ UNCHANGED <<qpvars, limvars, tasks, qavail>>

\* What create_part does to the Writer and its sink; form (the names given to
\* create_form_file / create_form_field) and body (the bytes written with the call)
\* go to the history.
create_part(headers, form, body) ==
    /\ sink' = sink \o create_part_bytes(writer, headers) \o body
    /\ writer' = [writer EXCEPT !.has_parts = TRUE]
    /\ written' = Append(written,
                         [header |-> headers, form |-> form, body |-> body,
                          at |-> Len(sink) + (IF writer.has_parts THEN 2 ELSE 0),
                          writes |-> <<>>])
    /\ wres' = "ok"

\* Writer::create_part.
CreatePart(headers) ==
    /\ writer.open
    /\ Calls < MaxCalls
    /\ create_part(headers, <<>>, <<>>)
    /\ UNCHANGED <<reader, source, results>>
    /\ UNCHANGED <<qpvars, limvars, tasks, qavail>>

\* Writer::create_form_file.
CreateFormFile(fieldname, filename) ==
    /\ writer.open
    /\ Calls < MaxCalls
    /\ create_part(form_file_headers(fieldname, filename), <<fieldname, filename>>, <<>>)
    /\ UNCHANGED <<reader, source, results>>
    /\ UNCHANGED <<qpvars, limvars, tasks, qavail>>

\* Writer::create_form_field.
CreateFormField(fieldname) ==
    /\ writer.open
    /\ Calls < MaxCalls
    /\ create_part(form_field_headers(fieldname), <<fieldname>>, <<>>)
    /\ UNCHANGED <<reader, source, results>>
    /\ UNCHANGED <<qpvars, limvars, tasks, qavail>>

\* Writer::write_field: create_form_field, then write_all of the value.
WriteField(fieldname, value) ==
    /\ writer.open
    /\ Calls < MaxCalls
    /\ create_part(form_field_headers(fieldname), <<fieldname>>, value)
    /\ UNCHANGED <<reader, source, results>>
    /\ UNCHANGED <<qpvars, limvars, tasks, qavail>>

\* PartWriter::poll_write on the body sink of the latest part: the sink takes the bytes.
PartWrite(chunk) ==
    /\ writer.open
    /\ written # <<>>
    /\ Calls < MaxCalls
    /\ sink' = sink \o BodyChunk(writer, chunk)
    /\ written' = [written EXCEPT ![Len(written)].body = @ \o BodyChunk(writer, chunk),
                                  ![Len(written)].writes = Append(@, 1)]
    /\ UNCHANGED <<writer, reader, source, results, wres>>
    /\ UNCHANGED <<qpvars, limvars, tasks, qavail>>

\* Writer::close.
Close ==
    /\ writer.open
    /\ sink' = sink \o close_bytes(writer)
    /\ writer' = [writer EXCEPT !.open = FALSE]
    /\ wres' = "ok"
    /\ UNCHANGED <<written, reader, source, results>>
    /\ UNCHANGED <<qpvars, limvars, tasks, qavail>>

\* Reader::new over the bytes the Writer produced, with the Writer's boundary; the
\* source delivers them whole (back = 0) or ends one read back bytes before the end.
NewReader(back) ==
    /\ ~writer.open
    /\ reader = NoReader
    /\ source' = [data |-> sink, cuts |-> IF back = 0 THEN {} ELSE {Len(sink) - back}]
    /\ reader' = new_reader(writer.boundary)
    /\ UNCHANGED <<writer, sink, written, results, wres>>
    /\ UNCHANGED <<qpvars, limvars, tasks, qavail>>

\* Reader::next_part.
NextPart ==
    /\ reader # NoReader
    /\ Len(results) < MaxReads
    /\ LET r == next_part_internal(reader, source)
       IN  /\ reader' = r.rd
           /\ results' = Append(results, r.res)
    /\ UNCHANGED <<writer, sink, written, source, wres>>
    /\ UNCHANGED <<qpvars, limvars, tasks, qavail>>

QPIdle ==
    /\ qw = new_qp_writer
    /\ qsink = <<>>
    /\ qin = <<>>
    /\ qr = NoReader
    /\ qsrc = <<>>
    /\ qreads = <<>>

\* No header block and no body is being read.
LimitsIdle ==
    /\ header_loop = [total_size |-> 0, header_count |-> 0, status |-> "more"]
    /\ header_read = [bytes |-> 0, header_bytes |-> 0, header_lines |-> 0]
    /\ data_loop = [total_bytes |-> 0, status |-> "more"]
    /\ data_read = [bytes |-> 0, short |-> 0, newline |-> FALSE]

Init ==
    /\ MPInit /\ QPIdle /\ LimitsIdle
    /\ tasks = <<>>
    /\ qavail = 0

Next ==
    \/ \E b \in BoundaryArgs : SetBoundary(b)
    \/ \E h \in HeaderArgs : CreatePart(h)
    \/ \E n \in FieldNames, f \in FileNames : CreateFormFile(n, f)
    \/ \E n \in FieldNames : CreateFormField(n)
    \/ \E n \in FieldNames, v \in FieldValues : WriteField(n, v)
    \/ \E chunk \in BodyChunks : PartWrite(chunk)
    \/ Close
    \/ \E back \in 0..MaxCutBack : NewReader(back)
    \/ NextPart

Spec == Init /\ [][Next]_vars

----------------------------------------------------------------------------
(* The Writer's boundary *)

\* The strings given to set_boundary here: the empty one, every string of one ASCII
\* char, pairs of a letter, a space, '#' and '-', the accepted punctuation in a row,
\* 69, 70 and 71 letters, 69 letters and a space, a space and 69 letters, and
\* strings with the two-byte char U+00E9: before a space, 35 of them (70 bytes),
\* 36 of them (72 bytes).
E_ACUTE == <<195, 169>>

BoundaryStrings ==
    {<<>>}
    \cup {<<c>> : c \in 0..127}
    \cup {<<c, d>> : c, d \in {97, SP, 35, DASH}}
    \cup {<<39, 40, 41, 43, 95, 44, 45, 46, 47, 58, 61, 63>>}
    \cup {[i \in 1..n |-> 97] : n \in {BOUNDARY_MAX_LEN - 1, BOUNDARY_MAX_LEN, BOUNDARY_MAX_LEN + 1}}
    \cup {[i \in 1..(BOUNDARY_MAX_LEN - 1) |-> 97] \o <<SP>>,
          <<SP>> \o [i \in 1..(BOUNDARY_MAX_LEN - 1) |-> 97]}
    \cup {E_ACUTE \o <<SP>>, <<97>> \o E_ACUTE \o <<SP>>}
    \cup {Concat([i \in 1..n |-> E_ACUTE]) : n \in {35, 36}}

\* A Writer that is given boundaries, then parts, then closed.
BoundaryNext ==
    \/ \E b \in BoundaryStrings : SetBoundary(b)
    \/ \E h \in HeaderArgs : CreatePart(h)
    \/ \E n \in FieldNames, v \in FieldValues : WriteField(n, v)
    \/ Close

SpecBoundary == Init /\ [][BoundaryNext]_vars

----------------------------------------------------------------------------
(* A multipart Reader over a message written by hand *)

\* --b\r\nContent-Disposition: form-data; name="f"\r\n\r\nhello\r\n--b--\r\n
SRC_EXAMPLE ==
    <<45, 45, 98, 13, 10, 67, 111, 110, 116, 101, 110, 116, 45, 68, 105, 115, 112, 111,
    115, 105, 116, 105, 111, 110, 58, 32, 102, 111, 114, 109, 45, 100, 97, 116, 97, 59,
    32, 110, 97, 109, 101, 61, 34, 102, 34, 13, 10, 13, 10, 104, 101, 108, 108, 111, 13,
    10, 45, 45, 98, 45, 45, 13, 10>>

\* --b\r\n\r\nhello\r\n--b--
SRC_NO_FINAL_NL ==
    <<45, 45, 98, 13, 10, 13, 10, 104, 101, 108, 108, 111, 13, 10, 45, 45, 98, 45, 45>>

\* p\r\n--b\r\nA: 1\r\n\r\nx\r\n--b 	\r\nContent-Disposition: attachment; name="f"; filename="d/e"\r\n\r\ny\r\n--b--\r\n
SRC_TWO_PARTS ==
    <<112, 13, 10, 45, 45, 98, 13, 10, 65, 58, 32, 49, 13, 10, 13, 10, 120, 13, 10, 45,
    45, 98, 32, 9, 13, 10, 67, 111, 110, 116, 101, 110, 116, 45, 68, 105, 115, 112, 111,
    115, 105, 116, 105, 111, 110, 58, 32, 97, 116, 116, 97, 99, 104, 109, 101, 110, 116,
    59, 32, 110, 97, 109, 101, 61, 34, 102, 34, 59, 32, 102, 105, 108, 101, 110, 97,
    109, 101, 61, 34, 100, 47, 101, 34, 13, 10, 13, 10, 121, 13, 10, 45, 45, 98, 45, 45,
    13, 10>>

\* --b\r\nContent-Disposition: form-data; filename="a/.."\r\n\r\n\r\n--b--\r\n
SRC_DOTDOT ==
    <<45, 45, 98, 13, 10, 67, 111, 110, 116, 101, 110, 116, 45, 68, 105, 115, 112, 111,
    115, 105, 116, 105, 111, 110, 58, 32, 102, 111, 114, 109, 45, 100, 97, 116, 97, 59,
    32, 102, 105, 108, 101, 110, 97, 109, 101, 61, 34, 97, 47, 46, 46, 34, 13, 10, 13,
    10, 13, 10, 45, 45, 98, 45, 45, 13, 10>>

\* --b\r\n\r\n--bx\r\n--b--\r\n
SRC_BAD_LINE ==
    <<45, 45, 98, 13, 10, 13, 10, 45, 45, 98, 120, 13, 10, 45, 45, 98, 45, 45, 13, 10>>

\* --b\r\nA: 1\r\n\r\nxy
SRC_TRUNCATED ==
    <<45, 45, 98, 13, 10, 65, 58, 32, 49, 13, 10, 13, 10, 120, 121>>

\* --b\n\nx\n--b\nA: 1\n\ny\n--b--\n
SRC_LF ==
    <<45, 45, 98, 10, 10, 120, 10, 45, 45, 98, 10, 65, 58, 32, 49, 10, 10, 121, 10, 45,
    45, 98, 45, 45, 10>>

\* --b\n\nx\n--b\r\n\r\ny\n--b--\n
SRC_LF_THEN_CRLF ==
    <<45, 45, 98, 10, 10, 120, 10, 45, 45, 98, 13, 10, 13, 10, 121, 10, 45, 45, 98, 45,
    45, 10>>

\* --b\n\nx\n--b--\r\n
SRC_LF_CRLF_END ==
    <<45, 45, 98, 10, 10, 120, 10, 45, 45, 98, 45, 45, 13, 10>>

\* --b\n\n--bx\n\n--b\n\n--b--\n
SRC_LF_SEPARATOR ==
    <<45, 45, 98, 10, 10, 45, 45, 98, 120, 10, 10, 45, 45, 98, 10, 10, 45, 45, 98, 45,
    45, 10>>

\* --b\n\n--bx\n\r\n--b\n\n--b--\n
SRC_LF_CRLF_SEPARATOR ==
    <<45, 45, 98, 10, 10, 45, 45, 98, 120, 10, 13, 10, 45, 45, 98, 10, 10, 45, 45, 98,
    45, 45, 10>>

\* --b\r\n\r\nx\r\n--b\n\n--b--\n
SRC_CRLF_THEN_LF ==
    <<45, 45, 98, 13, 10, 13, 10, 120, 13, 10, 45, 45, 98, 10, 10, 45, 45, 98, 45, 45, 10>>

\* --b\r\nA: 1\r\nnocolon\r\na :2\r\n B : x:y \r\n\r\nz\r\n--b\r\nC:3
SRC_HEADERS ==
    <<45, 45, 98, 13, 10, 65, 58, 32, 49, 13, 10, 110, 111, 99, 111, 108, 111, 110, 13, 10, 97, 32, 58, 50, 13, 10, 32, 66, 32, 58, 32, 120, 58, 121, 32, 13, 10, 13, 10, 122, 13, 10, 45, 45, 98, 13, 10, 67, 58, 51>>

\* p\n\r\n--bx\r\nx--b\r\n--b--x\r\n--b\r\n\r\nv\r\n--b--\r\n
SRC_PREAMBLE ==
    <<112, 10, 13, 10, 45, 45, 98, 120, 13, 10, 120, 45, 45, 98, 13, 10, 45, 45, 98, 45, 45, 120, 13, 10, 45, 45, 98, 13, 10, 13, 10, 118, 13, 10, 45, 45, 98, 45, 45, 13, 10>>

\* --b\r\n\r\nv\r\n--bxyz\r\n
SRC_BAD_LAST ==
    <<45, 45, 98, 13, 10, 13, 10, 118, 13, 10, 45, 45, 98, 120, 121, 122, 13, 10>>

\* 
SRC_EMPTY ==
    <<>>

ReadSources ==
    {SRC_EXAMPLE, SRC_NO_FINAL_NL, SRC_TWO_PARTS, SRC_DOTDOT, SRC_BAD_LINE,
    SRC_TRUNCATED, SRC_LF, SRC_LF_THEN_CRLF, SRC_LF_CRLF_END, SRC_LF_SEPARATOR,
    SRC_LF_CRLF_SEPARATOR, SRC_CRLF_THEN_LF, SRC_HEADERS,
    SRC_PREAMBLE, SRC_BAD_LAST, SRC_EMPTY}

\* The boundary given to Reader::new: "" and "b".
ReaderBoundaries == {<<>>, <<98>>}

\* Reader::new over a message written by hand, delivered whole (back = 0) or with
\* one read ending back bytes before the end.
NewReaderOn(src, boundary, back) ==
    /\ writer.open /\ sink = <<>>
    /\ reader = NoReader
    /\ back <= Len(src)
    /\ source' = [data |-> src, cuts |-> IF back = 0 THEN {} ELSE {Len(src) - back}]
    /\ reader' = new_reader(boundary)
    /\ UNCHANGED <<writer, sink, written, results, wres>>
    /\ UNCHANGED <<qpvars, limvars, tasks, qavail>>

ReadNext ==
    \/ \E src \in ReadSources, boundary \in ReaderBoundaries, back \in 0..MaxCutBack :
           NewReaderOn(src, boundary, back)
    \/ NextPart

SpecRead == Init /\ [][ReadNext]_vars

----------------------------------------------------------------------------
(* Several multipart Readers, one to a task *)

\* test_concurrent_multipart_readers: every spawned task is given a clone of the same
\* message, wraps it in a Cursor and a Reader of its own and calls next_part in a
\* loop; the runtime runs the tasks in any order, one next_part at a time. A Reader
\* holds its BufReader, its boundary strings and parts_read and nothing else.

\* How many tasks are spawned.
NumTasks == 2

Tasks == 1..NumTasks

\* The tasks are spawned, each over a clone of the message src.
SpawnTasks(src) ==
    /\ tasks = <<>>
    /\ tasks' = [t \in Tasks |->
                    [reader |-> new_reader(<<98>>),
                     source |-> [data |-> src, cuts |-> {}],
                     results |-> <<>>]]
    /\ UNCHANGED <<mpvars, qpvars, limvars, qavail>>

\* One next_part of task t, were the tasks to hold one Reader between them.
TaskNextPart_shared(t) ==
    /\ tasks # <<>>
    /\ Len(tasks[t].results) < MaxReads
    /\ LET r == next_part_internal(tasks[t].reader, tasks[t].source)
       IN  tasks' = [u \in Tasks |->
                        [reader |-> r.rd,
                         source |-> tasks[u].source,
                         results |-> IF u = t THEN Append(tasks[u].results, r.res)
                                     ELSE tasks[u].results]]
    /\ UNCHANGED <<mpvars, qpvars, limvars, qavail>>

\* One next_part of task t on its own Reader.
TaskNextPart(t) ==
    /\ tasks # <<>>
    /\ Len(tasks[t].results) < MaxReads
    /\ LET r == next_part_internal(tasks[t].reader, tasks[t].source)
       IN  tasks' = [tasks EXCEPT ![t] = [reader |-> r.rd,
                                          source |-> @.source,
                                          results |-> Append(@.results, r.res)]]
    /\ UNCHANGED <<mpvars, qpvars, limvars, qavail>>

TasksNext ==
    \/ \E src \in ReadSources : SpawnTasks(src)
    \/ \E t \in Tasks : TaskNextPart(t)

SpecTasks == Init /\ [][TasksNext]_vars

----------------------------------------------------------------------------
(* The size limits of the multipart Reader *)

\* read_mime_header and read_part_data taken one turn of their loops at a time (every
\* turn awaits the source once), on the lengths of what they read: the limits are
\* sums of lengths, and blocks of 10 MiB are out of reach as byte strings.

\* How far below the limit the long lines and long bodies start.
NearLimit == 4

\* The lengths of the header lines read: a short line ("a:b\n"), or one within
\* NearLimit bytes of MAX_MIME_HEADER_SIZE, or one byte above it.
HeaderLineLens == {4} \cup ((MAX_MIME_HEADER_SIZE - NearLimit)..(MAX_MIME_HEADER_SIZE + 1))

\* The lengths of the line that ends a header block: "" (end of stream), "\n", "\r\n".
EndLineLens == {0, 1, 2}

\* One turn of the loop of read_mime_header on a header line of len bytes.
ReadHeaderLine(len) ==
    /\ header_loop.status = "more"
    /\ header_loop' = read_mime_header_step(len, FALSE, header_loop.total_size,
                                            header_loop.header_count)
    /\ header_read' = [bytes |-> header_read.bytes + len,
                       header_bytes |-> header_read.header_bytes + len,
                       header_lines |-> header_read.header_lines + 1]
    /\ UNCHANGED <<data_loop, data_read>>
    /\ UNCHANGED <<mpvars, qpvars, tasks, qavail>>

\* One turn of the loop of read_mime_header on the line that ends the block.
ReadEndLine(len) ==
    /\ header_loop.status = "more"
    /\ header_loop' = read_mime_header_step(len, TRUE, header_loop.total_size,
                                            header_loop.header_count)
    /\ header_read' = [header_read EXCEPT !.bytes = @ + len]
    /\ UNCHANGED <<data_loop, data_read>>
    /\ UNCHANGED <<mpvars, qpvars, tasks, qavail>>

HeaderNext ==
    \/ \E len \in HeaderLineLens : ReadHeaderLine(len)
    \/ \E len \in EndLineLens : ReadEndLine(len)

SpecHeader == Init /\ [][HeaderNext]_vars

\* At most MaxShortChunks turns of read_part_data take less than a full buffer.
MaxShortChunks == 2

\* The lengths read_part_data takes in one turn: a full buffer, one byte less, one byte.
ChunkLens == {1, PEEK_BUFFER_SIZE - 1, PEEK_BUFFER_SIZE}

\* One turn of the loop of read_part_data that takes len bytes for the body: a line
\* that is no boundary (newline) or a buffer without LF.
TakeData(len, newline) ==
    /\ data_loop.status = "more"
    /\ len = PEEK_BUFFER_SIZE \/ data_read.short < MaxShortChunks
    /\ data_loop' = read_part_data_step(len, FALSE, data_loop.total_bytes)
    /\ data_read' = [bytes |-> data_read.bytes + len,
                     short |-> data_read.short + (IF len = PEEK_BUFFER_SIZE THEN 0 ELSE 1),
                     newline |-> data_read.newline \/ newline]
    /\ UNCHANGED <<header_loop, header_read>>
    /\ UNCHANGED <<mpvars, qpvars, tasks, qavail>>

\* The turn that ends the loop: the end of the stream (len = 0) or a line of len
\* bytes that passes the boundary test.
EndData(len) ==
    /\ data_loop.status = "more"
    /\ data_loop' = read_part_data_step(len, len > 0, data_loop.total_bytes)
    /\ UNCHANGED <<data_read, header_loop, header_read>>
    /\ UNCHANGED <<mpvars, qpvars, tasks, qavail>>

DataNext ==
    \/ \E len \in ChunkLens, newline \in BOOLEAN : TakeData(len, newline)
    \/ \E len \in {0, 5} : EndData(len)

SpecData == Init /\ [][DataNext]_vars

----------------------------------------------------------------------------
(* The quoted-printable system: one Writer over a Vec<u8>, then one Reader over
   the bytes produced, or one Reader over a source written by hand.  qin records
   the calls made on the Writer, qreads what each read returned. *)

\* At most MaxQWrites write calls, MaxQFlushes flush calls and MaxQReads reads.
MaxQWrites == 3

MaxQFlushes == 1

MaxQReads == 3

\* The length of the long run of plain bytes among the write buffers.
LongRun == 40

\* Write buffers: "a ", CR, LF, "=" TAB, the byte 0xC8 and a run of 'a'.
QChunks ==
    {<<97, SP>>, <<CR>>, <<LF>>, <<EQUALS, HT>>, <<200>>, [i \in 1..LongRun |-> 97]}

\* Sources written by hand: "\x01", "a\n\x01\nb\n" and "a=\n=4\x01"; with soft line
\* breaks, "H=20W=\r\nab", "a =\t \r\n=\nb\n" and "a==\nb="; with escapes that are
\* well formed and malformed, "=4a=4G=c8x=4\n==41="; with lines that end in
\* whitespace, in CR, space, LF and in nothing, "a \t\r\nb\r \nc ".
QSources ==
    {<<1>>, <<97, LF, 1, LF, 98, LF>>, <<97, EQUALS, LF, EQUALS, 52, 1>>,
     <<72, EQUALS, 50, 48, 87, EQUALS, CR, LF, 97, 98>>,
     <<97, SP, EQUALS, HT, SP, CR, LF, EQUALS, LF, 98, LF>>,
     <<97, EQUALS, EQUALS, LF, 98, EQUALS>>,
     <<61, 52, 97, 61, 52, 71, 61, 99, 56, 120, 61, 52, 10, 61, 61, 52, 49, 61>>,
     <<97, 32, 9, 13, 10, 98, 13, 32, 10, 99, 32>>}

\* The free space of the caller's buffer in a read.
QReadSizes == {2, 2 * LINE_BUF_LEN}

QWrites == SelectSeq(qin, LAMBDA c : c.op = "write")

QFlushes == SelectSeq(qin, LAMBDA c : c.op = "flush")

\* writer.binary = true, before any data is written.
QSetBinary ==
    /\ qw.open /\ ~qw.binary /\ qin = <<>> /\ qr = NoReader
    /\ qw' = [qw EXCEPT !.binary = TRUE]
    /\ UNCHANGED <<qsink, qin, qr, qsrc, qreads>>
    /\ UNCHANGED <<mpvars, limvars, tasks, qavail>>

\* One write call (AsyncWrite::poll_write) on a sink that is ready (a Vec<u8>).
QWrite(buf) ==
    /\ qw.open /\ qr = NoReader
    /\ Len(QWrites) < MaxQWrites
    /\ LET r == poll_write(qw, qsink, buf, "ready")
       IN  /\ qw' = r.w
           /\ qsink' = r.out
           /\ qin' = Append(qin, [op |-> "write", buf |-> buf, n |-> r.n])
    /\ UNCHANGED <<qr, qsrc, qreads>>
    /\ UNCHANGED <<mpvars, limvars, tasks, qavail>>

\* One flush call (AsyncWrite::poll_flush) on such a sink.
QFlush ==
    /\ qw.open /\ qr = NoReader
    /\ Len(QFlushes) < MaxQFlushes
    /\ LET r == poll_flush(qw, qsink, "ready")
       IN  /\ qw' = r.w
           /\ qsink' = r.out
           /\ qin' = Append(qin, [op |-> "flush"])
    /\ UNCHANGED <<qr, qsrc, qreads>>
    /\ UNCHANGED <<mpvars, limvars, tasks, qavail>>

\* Writer::close on such a sink.
QClose ==
    /\ qw.open /\ qr = NoReader
    /\ LET r == poll_shutdown(qw, qsink, "ready")
       IN  /\ qw' = r.w
           /\ qsink' = r.out
    /\ UNCHANGED <<qin, qr, qsrc, qreads>>
    /\ UNCHANGED <<mpvars, limvars, tasks, qavail>>

\* Reader::new over the complete output of the closed Writer.
QNewReader ==
    /\ ~qw.open /\ qr = NoReader
    /\ qr' = new_qp_reader
    /\ qsrc' = qsink
    /\ UNCHANGED <<qw, qsink, qin, qreads>>
    /\ UNCHANGED <<mpvars, limvars, tasks, qavail>>

\* Reader::new over a source written by hand.
QNewReaderOn(src) ==
    /\ qw = new_qp_writer /\ qin = <<>> /\ qr = NoReader
    /\ qr' = new_qp_reader
    /\ qsrc' = src
    /\ UNCHANGED <<qw, qsink, qin, qreads>>
    /\ UNCHANGED <<mpvars, limvars, tasks, qavail>>

\* One read (AsyncRead::poll_read) with n free bytes in the caller's buffer.
QRead(n) ==
    /\ qr # NoReader
    /\ Len(qreads) < MaxQReads
    /\ LET r == poll_read(qr, qsrc, n)
       IN  /\ qr' = r.rd
           /\ qreads' = Append(qreads, r.res)
    /\ UNCHANGED <<qw, qsink, qin, qsrc>>
    /\ UNCHANGED <<mpvars, limvars, tasks, qavail>>

QPNext ==
    \/ QSetBinary
    \/ \E buf \in QChunks : QWrite(buf)
    \/ QFlush
    \/ QClose
    \/ QNewReader
    \/ \E src \in QSources : QNewReaderOn(src)
    \/ \E n \in QReadSizes : QRead(n)

SpecQP == Init /\ [][QPNext]_vars

----------------------------------------------------------------------------
(* Claims about the multipart round trip *)

\* The part of the history whose delimiter line a result's call read, or 0.
WrittenAt(at) ==
    LET J == {j \in 1..Len(written) : written[j].at = at}
    IN  IF J = {} THEN 0 ELSE SetMin(J)

\* The i-th next_part call returned the part the i-th create call wrote.
ReadBack(i) ==
    /\ i <= Len(results)
    /\ i <= Len(written)
    /\ results[i].kind = "part"
    /\ results[i].at = written[i].at

\* C1 (as claimed): the Reader, given the bytes of N parts and the Writer's boundary,
\* returns a part from each of its first N next_part calls and 'no more parts' from
\* call N + 1.
C1_PartSequence ==
    \A i \in 1..Len(results) :
        /\ i <= Len(written) => results[i].kind = "part"
        /\ i = Len(written) + 1 => results[i].kind = "end"

\* C2 (as claimed): the body read from each part is exactly the bytes written to it.
C2_BodyBytes ==
    \A i \in 1..Len(results) : ReadBack(i) => results[i].body = written[i].body

\* The header mapping read back equals the one written, keys compared lower-cased.
SameHeaders(wh, rh) ==
    /\ DOMAIN rh = {to_lowercase(k) : k \in DOMAIN wh}
    /\ \A k \in DOMAIN wh : rh[to_lowercase(k)] = wh[k]

\* C3 (as claimed): the part read back for a create_part call has the header mapping
\* passed to that call, keys lower-cased, values in order.
C3_Headers ==
    \A i \in 1..Len(results) :
        (results[i].kind = "part" /\ WrittenAt(results[i].at) # 0)
        => SameHeaders(written[WrittenAt(results[i].at)].header, results[i].header)

\* A header mapping the wire format carries unchanged: every key has a value, no key
\* or value holds CR or LF or begins or ends with whitespace, no key holds a colon,
\* and no two keys are equal ignoring case.
PlainText(s) ==
    /\ \A i \in 1..Len(s) : s[i] # CR /\ s[i] # LF
    /\ trim(s) = s

WellFormedHeaders(wh) ==
    \A k \in DOMAIN wh :
        /\ wh[k] # <<>>
        /\ PlainText(k)
        /\ IndexOf(k, COLON) = 0
        /\ \A i \in 1..Len(wh[k]) : PlainText(wh[k][i])
        /\ \A k2 \in DOMAIN wh : to_lowercase(k2) = to_lowercase(k) => k2 = k

\* C3 (amended): for a well-formed header mapping, the part the Reader returns from
\* the delimiter line that create_part wrote has that mapping, keys lower-cased.
C3_WellFormedHeaders ==
    \A i \in 1..Len(results) :
        (/\ results[i].kind = "part"
         /\ WrittenAt(results[i].at) # 0
         /\ WellFormedHeaders(written[WrittenAt(results[i].at)].header))
        => SameHeaders(written[WrittenAt(results[i].at)].header, results[i].header)

\* C3 witness: the mapping Ab -> [v, w] has been read back as ab -> [v, w].
C3_Witness ==
    \E i \in 1..Len(results) :
        /\ results[i].kind = "part"
        /\ WrittenAt(results[i].at) # 0
        /\ written[WrittenAt(results[i].at)].header = (<<65, 98>> :> << <<118>>, <<119>> >>)
        /\ results[i].header = (<<97, 98>> :> << <<118>>, <<119>> >>)

\* C4 (as claimed): the part read back for a create_form_field / create_form_file /
\* write_field call reports the field name, and the file name, given to the call.
C4_FormNames ==
    \A i \in 1..Len(results) :
        LET j == WrittenAt(results[i].at)
        IN  (results[i].kind = "part" /\ j # 0 /\ written[j].form # <<>>)
            => /\ form_name(results[i].header) = <<written[j].form[1]>>
               /\ Len(written[j].form) = 2 =>
                      file_name(results[i].header) = <<written[j].form[2]>>

\* The terminal-boundary predicate, stated on the bytes of a line: "--" + B + "--",
\* then spaces and tabs, then nothing or the line terminator.
TerminalLine(line, B, nl) ==
    \E k \in 0..Len(line) :
        /\ Len(line) >= Len(B) + 4 + k
        /\ SubSeq(line, 1, Len(B) + 4) = <<DASH, DASH>> \o B \o <<DASH, DASH>>
        /\ \A i \in (Len(B) + 5)..(Len(B) + 4 + k) : line[i] \in {SP, HT}
        /\ Drop(line, Len(B) + 4 + k) \in {<<>>, nl}

\* C10: a next_part call returns 'no more parts' only when the last line it read is a
\* terminal boundary line; a call that meets the end of the stream (it reads a line
\* of no bytes) returns an error.
C10_EndOfParts ==
    \A i \in 1..Len(results) :
        /\ results[i].kind = "end" =>
               TerminalLine(results[i].line, reader.boundary, results[i].nl)
        /\ (reader.boundary # <<>> /\ results[i].line = <<>>) => results[i].kind = "err"

\* C10 witness: a call has returned 'no more parts' and another has met the end of
\* the stream.
C10_Witness ==
    /\ \E i \in 1..Len(results) : results[i].kind = "end"
    /\ \E i \in 1..Len(results) : results[i].line = <<>> /\ results[i].kind = "err"

----------------------------------------------------------------------------
(* Claims about the quoted-printable Writer and Reader *)

\* The bytes given to the Writer, in order.
QInput == Concat([i \in 1..Len(QWrites) |-> QWrites[i].buf])

\* The bytes the reads have returned, in order.
QDecoded ==
    Concat([i \in 1..Len(qreads) |->
               IF qreads[i].kind = "ok" THEN qreads[i].bytes ELSE <<>>])

\* The i-th read returned the zero-byte end-of-stream indication.
QEndOfStream(i) == qreads[i].kind = "ok" /\ qreads[i].bytes = <<>>

\* x holds no control byte below 0x20 other than tab, CR and LF.
NoControlByte(x) == \A i \in 1..Len(x) : x[i] >= SP \/ x[i] \in {HT, CR, LF}

\* The lines of an output: the bytes between CRLF terminators.
RECURSIVE OutputLines(_)
OutputLines(out) ==
    LET I == {i \in 1..(Len(out) - 1) : out[i] = CR /\ out[i + 1] = LF}
    IN  IF I = {} THEN <<out>>
        ELSE <<Take(out, SetMin(I) - 1)>> \o OutputLines(Drop(out, SetMin(I) + 1))

\* C5 (as claimed): x without control bytes, written in non-binary mode in any split
\* into write calls, then close; a Reader over the output, read to the end of the
\* stream, returns no error and exactly the bytes of x.
C5_RoundTrip ==
    (/\ ~qw.open /\ ~qw.binary /\ qr # NoReader
     /\ NoControlByte(QInput)
     /\ \E i \in 1..Len(qreads) : QEndOfStream(i))
    => /\ \A i \in 1..Len(qreads) : qreads[i].kind = "ok"
       /\ QDecoded = QInput

\* C6 (as claimed): no line of the bytes the Writer has produced is longer than 76
\* bytes, not counting its CRLF.
C6_LineLength ==
    \A i \in 1..Len(OutputLines(qsink)) : Len(OutputLines(qsink)[i]) <= LINE_MAX_LEN

\* C7 (as claimed): after write and flush calls and then close, the output does not
\* end in a raw space or tab, and a last input byte that is a space or a tab is the
\* escape =20 or =09 at the end of the output.
C7_TrailingWhitespace ==
    ~qw.open =>
        /\ qsink # <<>> => ~is_whitespace(qsink[Len(qsink)])
        /\ (QInput # <<>> /\ is_whitespace(QInput[Len(QInput)]))
               => EndsWith(qsink, hex_escape(QInput[Len(QInput)]))

\* C8 (as claimed): after a read has returned a decode error, every later read
\* returns that error.
C8_StickyError ==
    \A i, j \in 1..Len(qreads) :
        (i < j /\ qreads[i].kind = "err") => qreads[j] = qreads[i]

\* C9 (as claimed): when the source holds a raw control byte below 0x20 other than
\* tab, CR and LF, no read returns the zero-byte end of stream unless an earlier read
\* has returned the decode error.
C9_ErrorSurfaced ==
    (qr # NoReader /\ ~NoControlByte(qsrc))
    => \A i \in 1..Len(qreads) :
           QEndOfStream(i) => \E j \in 1..(i - 1) : qreads[j].kind = "err"

\* The physical lines of a source: each runs to and with its LF, the last one to the
\* end of the source.
RECURSIVE PhysicalLines(_)
PhysicalLines(src) ==
    LET lfs == {i \in 1..Len(src) : src[i] = 10}
    IN  IF src = <<>> THEN <<>>
        ELSE IF lfs = {} THEN <<src>>
        ELSE <<SubSeq(src, 1, SetMin(lfs))>> \o PhysicalLines(SubSeq(src, SetMin(lfs) + 1, Len(src)))

\* The content of a line: the line without its trailing CR, LF, spaces and tabs.
LineContent(line) ==
    LET I == {i \in 1..Len(line) : line[i] \notin {13, 10, 32, 9}}
    IN  IF I = {} THEN <<>> ELSE SubSeq(line, 1, CHOOSE i \in I : \A j \in I : j <= i)

\* The line ends in a soft line break.
SoftBreak(line) == LineContent(line) # <<>> /\ LineContent(line)[Len(LineContent(line))] = 61

\* What a line gives the decoded output: for a soft line break, the decoded bytes of
\* the content before its last '=' and nothing else.
DecodedLine(line) ==
    IF SoftBreak(line)
    THEN decode_content(SubSeq(LineContent(line), 1, Len(LineContent(line)) - 1), 1, <<>>).result
    ELSE decode_line(line).result

\* C22: a line whose content ends in a bare '=' gives the decoded output its content
\* without that '=' and no line terminator, and the decoded bytes of the next line
\* follow at once: a source whose lines all decode, read to the end of the stream,
\* yields the concatenation of what its lines give.
C22_SoftBreak ==
    (/\ qr # NoReader
     /\ \A i \in 1..Len(PhysicalLines(qsrc)) : ~decode_line(PhysicalLines(qsrc)[i]).err
     /\ \E i \in 1..Len(qreads) : QEndOfStream(i))
    => QDecoded = Concat([i \in 1..Len(PhysicalLines(qsrc)) |->
                            DecodedLine(PhysicalLines(qsrc)[i])])

\* C22 witness: "H=20W=\r\nab" has been read to the end of the stream as "H Wab".
C22_Witness ==
    /\ qr # NoReader
    /\ qsrc = <<72, 61, 50, 48, 87, 61, 13, 10, 97, 98>>
    /\ QDecoded = <<72, 32, 87, 97, 98>>
    /\ \E i \in 1..Len(qreads) : QEndOfStream(i)

\* The number of places at which pat occurs in x.
Occurrences(x, pat) ==
    Cardinality({i \in 1..(Len(x) - Len(pat) + 1) : SubSeq(x, i, i + Len(pat) - 1) = pat})

\* C23: with binary set before any data is written, every CR of the input is emitted
\* as =0D and every LF as =0A, and no CRLF line break is emitted for an input byte: a
\* CR or LF in the output belongs to a soft line break "=" CR LF.
C23_BinaryMode ==
    qw.binary =>
        LET out == qsink \o qw.line
        IN  /\ Occurrences(out, <<61, 48, 68>>) = Occurrences(QInput, <<13>>)
            /\ Occurrences(out, <<61, 48, 65>>) = Occurrences(QInput, <<10>>)
            /\ Occurrences(out, <<13>>) = Occurrences(out, <<61, 13, 10>>)
            /\ Occurrences(out, <<10>>) = Occurrences(out, <<61, 13, 10>>)

\* C23 witness: a CR and an LF have been written in binary mode and the Writer closed.
C23_Witness ==
    /\ qw.binary /\ ~qw.open
    /\ Occurrences(QInput, <<13>>) > 0
    /\ Occurrences(QInput, <<10>>) > 0

----------------------------------------------------------------------------
(* Claims about the multipart Reader *)

\* C11 (as claimed): after a next_part call has returned an error, every later
\* next_part call on the same Reader returns an error.
C11_FailurePermanent ==
    \A i, j \in 1..Len(results) :
        (i < j /\ results[i].kind = "err") => results[j].kind = "err"

\* C17: with an empty boundary every next_part call returns a Multipart error, whatever
\* the input, and reads no byte of it.
C17_EmptyBoundary ==
    (reader # NoReader /\ reader.boundary = <<>>) =>
        /\ \A i \in 1..Len(results) :
              results[i].kind = "err" /\ results[i].err = "Multipart"
        /\ reader.pos = 0

\* C17 witness: two calls have been made on a Reader with an empty boundary over a
\* stream that is not empty.
C17_Witness ==
    /\ reader # NoReader /\ reader.boundary = <<>>
    /\ source.data # <<>>
    /\ Len(results) >= 2

\* The line of data that starts at offset o: the bytes up to and including the first
\* LF, or up to the end of data.
LineFrom(data, o) ==
    LET rest == SubSeq(data, o + 1, Len(data))
        lfs == {i \in 1..Len(rest) : rest[i] = 10}
    IN  IF lfs = {} THEN rest ELSE SubSeq(rest, 1, SetMin(lfs))

\* line is prefix, then spaces and tabs, then the line terminator term.
IsLine(line, prefix, term) ==
    /\ Len(line) >= Len(prefix) + Len(term)
    /\ SubSeq(line, 1, Len(prefix)) = prefix
    /\ SubSeq(line, Len(line) - Len(term) + 1, Len(line)) = term
    /\ \A i \in (Len(prefix) + 1)..(Len(line) - Len(term)) : line[i] \in {32, 9}

\* The offsets of the lines of the Reader's stream that are delimiter lines with
\* either line terminator.
DelimiterLines ==
    {o \in {0} \cup {i \in 1..(Len(source.data) - 1) : source.data[i] = 10} :
        \/ IsLine(LineFrom(source.data, o), <<45, 45>> \o reader.boundary, <<10>>)
        \/ IsLine(LineFrom(source.data, o), <<45, 45>> \o reader.boundary, <<13, 10>>)}

\* The first delimiter line of the stream ends in a bare LF.
LfStream ==
    /\ reader # NoReader /\ reader.boundary # <<>>
    /\ DelimiterLines # {}
    /\ IsLine(LineFrom(source.data, SetMin(DelimiterLines)),
              <<45, 45>> \o reader.boundary, <<10>>)

\* C18: when the first delimiter line of the stream ends in a bare LF, the call that
\* reads it returns the part and from then on next_part takes LF for the line
\* terminator: a delimiter line ending in LF gives a part and one ending in CRLF a
\* Multipart error, a terminal line ending in LF gives 'no more parts' and one ending
\* in CRLF a Multipart error, a line LF is passed over as the blank separator and a
\* line CRLF is refused.
C18_LfDetection ==
    [][(NextPart /\ LfStream) =>
          LET r == results'[Len(results')]
              line == LineFrom(source.data, reader.pos)
              dash_b == <<45, 45>> \o reader.boundary
              refused == r.kind = "err" /\ r.err = "Multipart" /\ r.at = reader.pos
          IN  IF reader.parts_read = 0
              THEN /\ r.kind = "part" /\ r.at = SetMin(DelimiterLines)
                   /\ reader'.nl = <<10>>
              ELSE /\ reader.nl = <<10>>
                   /\ IsLine(line, dash_b, <<10>>) => r.kind = "part" /\ r.at = reader.pos
                   /\ IsLine(line, dash_b, <<13, 10>>) => refused
                   /\ IsLine(line, dash_b \o <<45, 45>>, <<10>>) => r.kind = "end"
                   /\ IsLine(line, dash_b \o <<45, 45>>, <<13, 10>>) => refused
                   /\ line = <<10>> => r.at = reader.pos + 1
                   /\ line = <<13, 10>> => refused]_vars

\* C18 witness: on a stream whose first delimiter line ends in LF, a third call has
\* passed over a blank LF line and returned the part of an LF delimiter line.
C18_Witness ==
    /\ LfStream
    /\ Len(results) = 3
    /\ results[2].kind = "err"
    /\ results[3].kind = "part" /\ results[3].nl = <<10>>

\* The offsets at which the lines of data start.
LineStarts(data) == {0} \cup {i \in 1..(Len(data) - 1) : data[i] = 10}

\* The offsets of the lines of data that begin with "--" B.
BoundaryLines(data, B) ==
    {o \in LineStarts(data) :
        Len(LineFrom(data, o)) >= Len(B) + 2
        /\ SubSeq(LineFrom(data, o), 1, Len(B) + 2) = <<45, 45>> \o B}

\* A well-formed message: with one line terminator throughout (CRLF or LF), every
\* line that begins with "--" B is a delimiter line, followed by a header block that
\* ends in a blank line, but the last line of the message, which is the terminal
\* line (with the line terminator or without one).
WellFormed(data, B) ==
    \E term \in {<<13, 10>>, <<10>>} :
        LET bl == BoundaryLines(data, B)
            last == CHOOSE o \in LineStarts(data) : \A p \in LineStarts(data) : p <= o
        IN  /\ last \in bl
            /\ \/ IsLine(LineFrom(data, last), <<45, 45>> \o B \o <<45, 45>>, term)
               \/ IsLine(LineFrom(data, last), <<45, 45>> \o B \o <<45, 45>>, <<>>)
            /\ \A o \in bl \ {last} :
                  /\ IsLine(LineFrom(data, o), <<45, 45>> \o B, term)
                  /\ \E p \in LineStarts(data) :
                        /\ p > o /\ LineFrom(data, p) = term
                        /\ \A q \in bl : ~(o < q /\ q < p)

\* Where the body of the part whose delimiter line is at offset at starts: after the
\* first blank line that follows.
BodyStart(data, at) ==
    LET blank == {p \in LineStarts(data) :
                    p > at /\ LineFrom(data, p) \in {<<13, 10>>, <<10>>}}
    IN  SetMin(blank) + Len(LineFrom(data, SetMin(blank)))

\* Where it stops: at the next line that begins with "--" B.
BodyStop(data, B, at) ==
    SetMin({q \in BoundaryLines(data, B) : q >= BodyStart(data, at)})

\* C19 (as claimed): for a well-formed message read from a fully buffered source, the
\* body of each Part is the bytes between the blank line that ends its header block
\* and the next line that begins with "--" B, the line terminator before that line
\* included, and that line is left unread for the next call.
C19_BodyExtent ==
    ( /\ reader # NoReader /\ reader.boundary # <<>>
      /\ source.cuts = {} /\ Len(source.data) <= PEEK_BUFFER_SIZE
      /\ WellFormed(source.data, reader.boundary) ) =>
        \A i \in 1..Len(results) :
            results[i].kind = "part" =>
                /\ results[i].body =
                       SubSeq(source.data,
                              BodyStart(source.data, results[i].at) + 1,
                              BodyStop(source.data, reader.boundary, results[i].at))
                /\ i = Len(results) =>
                       reader.pos = BodyStop(source.data, reader.boundary, results[i].at)

\* The last path segment of f: the bytes after its last '/'.
LastSegment(f) ==
    LET slashes == {i \in 1..Len(f) : f[i] = 47}
    IN  IF slashes = {} THEN f
        ELSE SubSeq(f, (CHOOSE i \in slashes : \A j \in slashes : j <= i) + 1, Len(f))

\* C20 (as claimed): form_name() is the name parameter when the Content-Disposition
\* type of the part is form-data and nothing otherwise; file_name() is the last path
\* segment of the filename parameter whatever the type; a part without a
\* Content-Disposition header gives nothing for both.
C20_Names ==
    \A i \in 1..Len(results) :
        results[i].kind = "part" =>
            LET header == results[i].header
                d == parse_content_disposition(header)
            IN  /\ form_name(header) =
                       IF d.disposition = FORM_DATA /\ PARAM_NAME \in DOMAIN d.params
                       THEN <<d.params[PARAM_NAME]>> ELSE <<>>
                /\ file_name(header) =
                       IF PARAM_FILENAME \in DOMAIN d.params
                       THEN <<LastSegment(d.params[PARAM_FILENAME])>> ELSE <<>>
                /\ KEY_CONTENT_DISPOSITION \notin DOMAIN header =>
                       form_name(header) = <<>> /\ file_name(header) = <<>>

----------------------------------------------------------------------------
(* Claims about the multipart Writer *)

\* The line written at offset at of the sink is "--" + B + CRLF.
DelimiterLineAt(at, B) ==
    SubSeq(sink, at + 1, at + Len(B) + 4) = <<DASH, DASH>> \o B \o CRLF

\* C12: once a part has been created, a set_boundary call returns a Multipart error
\* and no step changes the boundary; every delimiter line written, and the terminal
\* line after close, carry the Writer's boundary.
C12_BoundaryFrozen ==
    /\ [][writer.has_parts =>
             /\ writer'.boundary = writer.boundary
             /\ \A b \in BoundaryArgs : SetBoundary(b) => wres' = "Multipart"]_vars
    /\ [](/\ \A i \in 1..Len(written) : DelimiterLineAt(written[i].at, writer.boundary)
          /\ ~writer.open =>
                 EndsWith(sink, <<DASH, DASH>> \o writer.boundary \o <<DASH, DASH>> \o CRLF))

\* C12 witness: a set_boundary call has been refused on a Writer with a part.
C12_Witness ==
    /\ writer.has_parts
    /\ wres = "Multipart"

\* The boundaries the specification allows: 1 to 70 characters, each an ASCII letter
\* or digit, one of ' ( ) + _ , - . / : = ? or a space that is not the last character.
ValidBoundary(b) ==
    LET c == chars(b)
    IN  /\ Len(c) >= 1 /\ Len(c) <= 70
        /\ \A i \in 1..Len(c) :
              \/ c[i] \in 48..57 \cup 65..90 \cup 97..122
              \/ c[i] \in {39, 40, 41, 43, 95, 44, 45, 46, 47, 58, 61, 63}
              \/ c[i] = 32 /\ i < Len(c)

\* C13: before any part is created, set_boundary(b) succeeds if and only if b is a
\* valid boundary (1 to 70 characters, each a letter, a digit, one of
\* ' ( ) + _ , - . / : = ? or a non-final space); on success boundary() is b, on
\* failure a Multipart error is returned and boundary() keeps its value.
C13_BoundaryValidation ==
    [][\A b \in BoundaryStrings :
          (~writer.has_parts /\ SetBoundary(b)) =>
              IF ValidBoundary(b)
              THEN wres' = "ok" /\ writer'.boundary = b
              ELSE wres' = "Multipart" /\ writer'.boundary = writer.boundary]_vars

\* C13 witness: a boundary of 70 characters has been accepted and a later
\* set_boundary refused, before any part.
C13_Witness ==
    /\ ~writer.has_parts
    /\ wres = "Multipart"
    /\ Len(writer.boundary) = 70

\* The lines "key: value" CRLF of a header mapping: keys in ascending order, the
\* values of a key in list order.
WireHeaders(h) ==
    LET rank(k) == 1 + Cardinality({j \in DOMAIN h : BytesLess(j, k)})
        key(r) == CHOOSE k \in DOMAIN h : rank(k) = r
    IN  Concat([r \in 1..Cardinality(DOMAIN h) |->
                  Concat([v \in 1..Len(h[key(r)]) |->
                            key(r) \o <<58, 32>> \o h[key(r)][v] \o <<13, 10>>])])

\* The bytes of part i on the wire, for boundary B.
WirePart(i, B) ==
    (IF i > 1 THEN <<13, 10>> ELSE <<>>)
    \o <<45, 45>> \o B \o <<13, 10>>
    \o WireHeaders(written[i].header)
    \o <<13, 10>>
    \o written[i].body

\* C14: the bytes delivered to the sink are, for each part i in order: CRLF if i > 1,
\* "--" B CRLF, one line "key: value" CRLF per value with the keys ascending, an empty
\* line, the body bytes written; and after close, CRLF if there is a part, then
\* "--" B "--" CRLF (with no part, that line alone).
C14_WireFormat ==
    sink = Concat([i \in 1..Len(written) |-> WirePart(i, writer.boundary)])
           \o (IF writer.open THEN <<>>
               ELSE (IF Len(written) > 0 THEN <<13, 10>> ELSE <<>>)
                    \o <<45, 45>> \o writer.boundary \o <<45, 45, 13, 10>>)

\* C14 witness: a closed message of two parts, one with two header keys and one with
\* a body.
C14_Witness ==
    /\ ~writer.open
    /\ Len(written) = 2
    /\ \E i \in 1..2 : Cardinality(DOMAIN written[i].header) = 2
    /\ \E i \in 1..2 : written[i].body # <<>>

\* C21: for every boundary B the Writer holds, form_data_content_type() is
\* "multipart/form-data; boundary=" followed by B, and B is in double quotes if and
\* only if it contains one of ( ) < > @ , ; : \ " / [ ] ? = or a space.
C21_ContentType ==
    LET B == writer.boundary
        quoted == \E i \in 1..Len(B) :
                      B[i] \in {40, 41, 60, 62, 64, 44, 59, 58, 92, 34, 47, 91, 93, 63, 61, 32}
        head == <<109, 117, 108, 116, 105, 112, 97, 114, 116, 47, 102, 111, 114, 109,
                  45, 100, 97, 116, 97, 59, 32, 98, 111, 117, 110, 100, 97, 114, 121, 61>>
    IN  form_data_content_type(writer) =
            IF quoted THEN head \o <<34>> \o B \o <<34>> ELSE head \o B

\* C21 witness: set_boundary has accepted the boundary '()+_,-./:=? .
C21_Witness ==
    /\ wres = "ok"
    /\ writer.boundary = <<39, 40, 41, 43, 95, 44, 45, 46, 47, 58, 61, 63>>

\* b is 60 lower-case hexadecimal digits.
DefaultBoundary(b) ==
    /\ Len(b) = 60
    /\ \A i \in 1..Len(b) : b[i] \in 48..57 \cup 97..102

\* C40: the boundary of a new Writer is 60 lower-case hexadecimal digits, and in every
\* state, whatever calls of set_boundary, create_part, write_field and close have
\* succeeded or failed, the Writer's boundary is a valid boundary (1 to 70 allowed
\* characters, the last one no space).
C40_BoundaryAlwaysValid ==
    /\ DefaultBoundary(writer.boundary)
    /\ [](ValidBoundary(writer.boundary))

\* set_boundary has accepted a boundary of 70 characters, a field has been written, and
\* a later set_boundary has failed.
C40_Witness ==
    /\ writer.has_parts
    /\ \E i \in 1..Len(written) : written[i].form # <<>>
    /\ wres = "Multipart"
    /\ Len(writer.boundary) = 70
    /\ ~DefaultBoundary(writer.boundary)

----------------------------------------------------------------------------
(* Claims about the limits of the multipart Reader *)

\* C15: reading a header block fails with MessageTooLarge exactly when the size of
\* the lines read for the block (the line that ends it included) exceeds 10 MiB or
\* the number of header lines exceeds 10,000; exactly 10 MiB and exactly 10,000 lines
\* are accepted, one byte or one line more is rejected.
C15_HeaderLimits ==
    /\ header_loop.status = "MessageTooLarge" <=>
           \/ header_read.bytes > 10 * 1024 * 1024
           \/ header_read.header_lines > 10000
    /\ header_loop.status \in {"more", "done", "MessageTooLarge"}

\* C15 witness: a header block of exactly 10 MiB has been read to its end and accepted.
C15_Witness ==
    /\ header_loop.status = "done"
    /\ header_read.bytes = 10 * 1024 * 1024

\* C16: reading a part's body fails with MessageTooLarge exactly when the bytes
\* accumulated for the body exceed 32 MiB; a body of exactly 32 MiB is returned, one
\* of 32 MiB + 1 byte is rejected, with or without line terminators in the body.
C16_BodyLimit ==
    /\ data_loop.status = "MessageTooLarge" <=> data_read.bytes > 32 * 1024 * 1024
    /\ data_loop.status = "done" => data_loop.total_bytes = data_read.bytes

\* C16 witness: a body of exactly 32 MiB with a line terminator in it has been
\* read to its end and returned.
C16_Witness ==
    /\ data_loop.status = "done"
    /\ data_read.bytes = 32 * 1024 * 1024
    /\ data_read.newline

----------------------------------------------------------------------------
(* Claims about the header block of a part *)

\* s without the white space at its two ends.
Trimmed(s) ==
    LET I == {i \in 1..Len(s) : s[i] \notin {9, 10, 11, 12, 13, 32}}
    IN  IF I = {} THEN <<>>
        ELSE SubSeq(s, CHOOSE i \in I : \A j \in I : i <= j,
                       CHOOSE i \in I : \A j \in I : j <= i)

\* The lines of the header block that starts at offset o of data: those before the
\* first line that is a line terminator and nothing else, or all that are left.
HeaderBlock(data, o) ==
    LET lines == PhysicalLines(SubSeq(data, o + 1, Len(data)))
        ends == {i \in 1..Len(lines) : lines[i] \in {<<13, 10>>, <<10>>}}
    IN  IF ends = {} THEN lines
        ELSE SubSeq(lines, 1, (CHOOSE i \in ends : \A j \in ends : i <= j) - 1)

\* The key of a header line with a colon: what stands before the first colon,
\* trimmed, in lower case.
HeaderKey(line) ==
    LET colon == CHOOSE i \in 1..Len(line) : line[i] = 58 /\ \A j \in 1..(i - 1) : line[j] # 58
        name == Trimmed(SubSeq(line, 1, colon - 1))
    IN  [i \in 1..Len(name) |-> IF name[i] \in 65..90 THEN name[i] + 32 ELSE name[i]]

\* Its value: what stands after the first colon, trimmed.
HeaderValue(line) ==
    LET colon == CHOOSE i \in 1..Len(line) : line[i] = 58 /\ \A j \in 1..(i - 1) : line[j] # 58
    IN  Trimmed(SubSeq(line, colon + 1, Len(line)))

\* The header of the block at offset o: every key of its lines with a colon, with the
\* values of that key in the order of the lines.
HeaderOf(data, o) ==
    LET fields == SelectSeq(HeaderBlock(data, o), LAMBDA l : \E i \in 1..Len(l) : l[i] = 58)
        keys == {HeaderKey(fields[i]) : i \in 1..Len(fields)}
    IN  [k \in keys |->
            LET mine == SelectSeq(fields, LAMBDA l : HeaderKey(l) = k)
            IN  [i \in 1..Len(mine) |-> HeaderValue(mine[i])]]

\* C35: the header of every part returned holds, for the lines of its header block
\* that have a colon, the trimmed lower-case name before the first colon as key and
\* the trimmed values after it in their order of appearance; lines without a colon
\* add nothing, and the block ends at the first empty line or at the end of the stream.
C35_HeaderLines ==
    \A i \in 1..Len(results) :
        results[i].kind = "part"
            => results[i].header = HeaderOf(source.data, results[i].at + Len(results[i].line))

\* The two parts of the stream with the header lines "A: 1", "nocolon", "a :2" and
\* " B : x:y " and, in a block ended by the end of the stream, "C:3" have been read.
C35_Witness ==
    /\ source.data = SRC_HEADERS
    /\ Len(results) >= 2
    /\ results[1].kind = "part"
    /\ results[1].header = (<<97>> :> <<<<49>>, <<50>>>>) @@ (<<98>> :> <<<<120, 58, 121>>>>)
    /\ results[2].kind = "part"
    /\ results[2].header = (<<99>> :> <<<<51>>>>)

----------------------------------------------------------------------------
(* Claims about the preamble *)

\* The stream has a first delimiter line and no terminal boundary line before it.
HasPreambleThenPart ==
    /\ reader # NoReader /\ reader.boundary # <<>>
    /\ DelimiterLines # {}
    /\ \A p \in LineStarts(source.data) :
          p < SetMin(DelimiterLines)
              => /\ ~TerminalLine(LineFrom(source.data, p), reader.boundary, <<13, 10>>)
                 /\ ~TerminalLine(LineFrom(source.data, p), reader.boundary, <<10>>)

\* C36: when lines without a delimiter or terminal boundary line precede the first
\* delimiter line, the first next_part call returns the part that starts at that
\* delimiter line, without error, and the body of the part is made of bytes that
\* follow the delimiter line.
C36_Preamble ==
    (HasPreambleThenPart /\ Len(results) >= 1)
    => LET o == SetMin(DelimiterLines)
           first == results[1]
       IN  /\ first.kind = "part"
           /\ first.at = o
           /\ first.line = LineFrom(source.data, o)
           /\ first.header = HeaderOf(source.data, o + Len(first.line))
           /\ \E p \in (o + Len(first.line))..Len(source.data) :
                 first.body = SubSeq(source.data, p + 1, p + Len(first.body))

\* The first call on the stream with the preamble "p\n", "\r\n", "--bx\r\n",
\* "x--b\r\n", "--b--x\r\n" has returned the part with the body "v\r\n".
C36_Witness ==
    /\ HasPreambleThenPart
    /\ source.data = SRC_PREAMBLE
    /\ Len(results) >= 1
    /\ results[1].kind = "part" /\ results[1].body = <<118, 13, 10>>

----------------------------------------------------------------------------
(* Claims about the end of a body *)

\* The part read at offset at has a header block that ends in an empty line, and the
\* first line after it that begins with "--" B is neither a delimiter line nor a
\* terminal line for the line terminator nl.
BodyEndsAtBadLine(data, B, at, nl) ==
    /\ \E p \in LineStarts(data) : p > at /\ LineFrom(data, p) \in {<<13, 10>>, <<10>>}
    /\ \E q \in BoundaryLines(data, B) : q >= BodyStart(data, at)
    /\ LET line == LineFrom(data, BodyStop(data, B, at))
       IN  ~IsLine(line, <<45, 45>> \o B, nl) /\ ~TerminalLine(line, B, nl)

\* C37: when the first line of a part's body that begins with "--" B is neither a
\* delimiter line nor a terminal line, the body of the Part returned is what stands
\* before that line, and the next call of next_part fails with a Multipart error on
\* that line.
C37_BoundaryPrefixedLine ==
    \A i \in 1..Len(results) :
        (/\ results[i].kind = "part"
         /\ BodyEndsAtBadLine(source.data, reader.boundary, results[i].at, results[i].nl))
        => LET from == BodyStart(source.data, results[i].at)
               to == BodyStop(source.data, reader.boundary, results[i].at)
           IN  /\ results[i].body = SubSeq(source.data, from + 1, to)
               /\ i < Len(results)
                     => /\ results[i + 1].kind = "err"
                        /\ results[i + 1].err = "Multipart"
                        /\ results[i + 1].line = LineFrom(source.data, to)

\* Where call i of next_part left the read position.
ReadEnd(i) == IF i < Len(results) THEN results[i + 1].at ELSE reader.pos

\* Where the body of the part whose delimiter line is at offset at starts when the
\* stream may end inside the header block.
BodyFrom(data, at) ==
    IF \E p \in LineStarts(data) : p > at /\ LineFrom(data, p) \in {<<13, 10>>, <<10>>}
    THEN BodyStart(data, at)
    ELSE Len(data)

\* C38: when a delimiter line has been read and no line from the start of the body on
\* begins with "--" B, next_part returns a Part; when the stream ended while its body
\* was read, the body is every byte from the start of the body to the end of the
\* stream, and the next call fails with an unexpected-end-of-stream error.
C38_TruncatedBody ==
    \A i \in 1..Len(results) :
        (/\ IsLine(results[i].line, <<45, 45>> \o reader.boundary, results[i].nl)
         /\ \A q \in BoundaryLines(source.data, reader.boundary) :
                q < BodyFrom(source.data, results[i].at))
        => /\ results[i].kind = "part"
           /\ ReadEnd(i) = Len(source.data)
                 => /\ results[i].body =
                          SubSeq(source.data, BodyFrom(source.data, results[i].at) + 1,
                                 Len(source.data))
                    /\ i < Len(results)
                          => /\ results[i + 1].kind = "err"
                             /\ results[i + 1].err = "Io"
                             /\ results[i + 1].line = <<>>

\* A part with the body "xy" has been returned from a stream that ends after these two
\* bytes, and the call after it has failed.
C38_Witness ==
    /\ source.data = SRC_TRUNCATED
    /\ Len(results) = 2
    /\ results[1].kind = "part" /\ results[1].body = <<120, 121>>
    /\ results[2].kind = "err"

----------------------------------------------------------------------------
(* Claims about the line terminator of the multipart Reader *)

\* C29: nl is CRLF or LF and nl_dash_boundary is nl followed by "--" and the
\* boundary; a next_part call changes nl only from CRLF to LF and only when no part
\* has been read before it, and once a part has been read neither nl nor
\* nl_dash_boundary changes.
C29_LineTerminator ==
    /\ [](reader # NoReader =>
            /\ reader.nl \in {<<13, 10>>, <<10>>}
            /\ reader.nl_dash_boundary = reader.nl \o <<45, 45>> \o reader.boundary)
    /\ [][(reader # NoReader /\ reader' # NoReader) =>
            /\ reader'.nl # reader.nl =>
                  (reader.nl = <<13, 10>> /\ reader'.nl = <<10>> /\ reader.parts_read = 0)
            /\ reader.parts_read >= 1 =>
                  (reader'.nl = reader.nl
                   /\ reader'.nl_dash_boundary = reader.nl_dash_boundary)]_vars

\* A Reader has read the first part of a message whose lines end in CRLF and has then
\* come to a delimiter line that ends in LF: it is refused and nl is still CRLF.
C29_Witness ==
    /\ reader # NoReader
    /\ source.data = SRC_CRLF_THEN_LF
    /\ reader.parts_read = 1
    /\ reader.nl = <<13, 10>>
    /\ Len(results) = 2 /\ results[2].kind = "err"

----------------------------------------------------------------------------
(* Claims about the end of the stream in the multipart Reader *)

\* C30: a next_part call that comes to the end of the stream (it reads a line of zero
\* bytes) without having read a terminal boundary line returns an error of the kind
\* Multipart.
C30_PrematureEnd ==
    \A i \in 1..Len(results) :
        (/\ reader.boundary # <<>>
         /\ results[i].kind = "err"
         /\ results[i].line = <<>>
         /\ results[i].at = Len(source.data))
            => results[i].err = "Multipart"

----------------------------------------------------------------------------
(* Claims about several multipart Readers *)

\* What n calls of next_part return to a Reader rd that runs alone over src.
RECURSIVE RunAlone(_, _, _)
RunAlone(rd, src, n) ==
    IF n = 0 THEN <<>>
    ELSE LET r == next_part_internal(rd, src)
         IN  <<r.res>> \o RunAlone(r.rd, src, n - 1)

----------------------------------------------------------------------------
(* Claims about the buffer fills of the multipart Reader *)

\* What the caller of next_part sees of a result: a part with its header and body,
\* the end of the parts, or an error with its kind.
Outcome(res) ==
    IF res.kind = "part" THEN [kind |-> "part", header |-> res.header, body |-> res.body]
    ELSE IF res.kind = "err" THEN [kind |-> "err", err |-> res.err]
    ELSE [kind |-> "end"]

\* C25: the results of next_part do not depend on how the bytes of the source are
\* split across buffer fills: a Reader whose source delivers the message in two
\* reads has received the results that a Reader over the same bytes delivered in one
\* read receives.
C25_BufferingIndependent ==
    reader # NoReader =>
        LET whole == RunAlone(new_reader(reader.boundary),
                              [data |-> source.data, cuts |-> {}], Len(results))
        IN  \A i \in 1..Len(results) : Outcome(results[i]) = Outcome(whole[i])

----------------------------------------------------------------------------
(* The quoted-printable Reader over a source that delivers its bytes in pieces *)

\* The source delivers its next k bytes (the last delivery also ends the stream).
QDeliver(k) ==
    /\ qr # NoReader
    /\ qavail + k <= Len(qsrc)
    /\ qavail' = qavail + k
    /\ UNCHANGED <<qpvars, mpvars, limvars, tasks>>

\* One poll of AsyncRead::poll_read with n free bytes in the caller's buffer.
QPoll(n) ==
    /\ qr # NoReader
    /\ Len(qreads) < MaxQReads
    /\ LET r == poll_read_avail(qr, qsrc, qavail, n)
       IN  /\ qr' = r.rd
           /\ qreads' = Append(qreads, r.res)
    /\ UNCHANGED <<qw, qsink, qin, qsrc, qavail>>
    /\ UNCHANGED <<mpvars, limvars, tasks>>

QPiecesNext ==
    \/ \E src \in QSources : QNewReaderOn(src)
    \/ \E k \in 1..LINE_BUF_LEN : QDeliver(k)
    \/ \E n \in QReadSizes : QPoll(n)

SpecQPPieces == Init /\ [][QPiecesNext]_vars

\* The bytes a Reader returns when src is all there from the start, in reads of n
\* bytes, up to the first read that returns none (at most k reads).
RECURSIVE DecodeWhole(_, _, _, _)
DecodeWhole(rd, src, n, k) ==
    LET r == poll_read(rd, src, n)
    IN  IF k = 0 THEN <<>>
        ELSE IF r.res.kind = "err" THEN DecodeWhole(r.rd, src, n, k - 1)
        ELSE IF r.res.bytes = <<>> THEN <<>>
        ELSE r.res.bytes \o DecodeWhole(r.rd, src, n, k - 1)

\* The bytes the polls have put in the caller's buffer, those of the polls that
\* ended in Pending included.
QReceived ==
    Concat([i \in 1..Len(qreads) |->
               IF qreads[i].kind = "err" THEN <<>> ELSE qreads[i].bytes])

\* C26: however the source delivers its bytes and whenever the Reader is polled, the
\* bytes it has returned so far are the beginning of what it returns when the whole
\* input is available at once.
C26_SuspensionLosesNothing ==
    qr # NoReader =>
        LET whole == DecodeWhole(new_qp_reader, qsrc, 2 * LINE_BUF_LEN, Len(qsrc) + 2)
        IN  Len(QReceived) <= Len(whole) /\ QReceived = Take(whole, Len(QReceived))

----------------------------------------------------------------------------
(* The quoted-printable Writer over a sink that is not always ready *)

\* The call that returned Pending last, if the last call did: the caller makes it
\* again, with the same data.
QSuspended(op, buf) ==
    (qin # <<>> /\ qin[Len(qin)].kind = "pending")
        => (qin[Len(qin)].op = op /\ qin[Len(qin)].buf = buf)

\* One poll of poll_write, resp being the condition of the sink.
QWriteTo(buf, resp) ==
    /\ qw.open /\ qr = NoReader
    /\ Len(QWrites) < MaxQWrites
    /\ QSuspended("write", buf)
    /\ LET r == poll_write(qw, qsink, buf, resp)
       IN  /\ qw' = r.w
           /\ qsink' = r.out
           /\ qin' = Append(qin, [op |-> "write", buf |-> buf, n |-> r.n,
                                  sink |-> resp, kind |-> r.kind])
    /\ UNCHANGED <<qr, qsrc, qreads>>
    /\ UNCHANGED <<mpvars, limvars, tasks, qavail>>

\* One poll of poll_flush.
QFlushTo(resp) ==
    /\ qw.open /\ qr = NoReader
    /\ Len(QFlushes) < MaxQFlushes
    /\ QSuspended("flush", <<>>)
    /\ LET r == poll_flush(qw, qsink, resp)
       IN  /\ qw' = r.w
           /\ qsink' = r.out
           /\ qin' = Append(qin, [op |-> "flush", buf |-> <<>>, n |-> 0,
                                  sink |-> resp, kind |-> r.kind])
    /\ UNCHANGED <<qr, qsrc, qreads>>
    /\ UNCHANGED <<mpvars, limvars, tasks, qavail>>

\* One poll of poll_shutdown (Writer::close polls it until it is ready); at most
\* MaxQFlushes + 1 of them.
QCloseTo(resp) ==
    /\ qw.open /\ qr = NoReader
    /\ Len(SelectSeq(qin, LAMBDA c : c.op = "close")) <= MaxQFlushes
    /\ QSuspended("close", <<>>)
    /\ LET r == poll_shutdown(qw, qsink, resp)
       IN  /\ qw' = r.w
           /\ qsink' = r.out
           /\ qin' = Append(qin, [op |-> "close", buf |-> <<>>, n |-> 0,
                                  sink |-> resp, kind |-> r.kind])
    /\ UNCHANGED <<qr, qsrc, qreads>>
    /\ UNCHANGED <<mpvars, limvars, tasks, qavail>>

\* Write buffers: "a ", LF and the run of 'a'.
QSinkChunks == {<<97, SP>>, <<LF>>, [i \in 1..LongRun |-> 97]}

QSinkNext ==
    \E resp \in {"ready", "short", "pending"} :
        \/ \E buf \in QSinkChunks : QWriteTo(buf, resp)
        \/ QFlushTo(resp)
        \/ QCloseTo(resp)

SpecQPSink == Init /\ [][QSinkNext]_vars

\* Write buffers that fill the line buffer to the byte before the Writer breaks the
\* line: a run of LineRun letters (two of them make 72 bytes), a space (escaped by
\* close) and LF (a line break, or escaped in binary mode).
LineRun == 36

QLineChunks == {[i \in 1..LineRun |-> 97], <<SP>>, <<LF>>}

QLineNext ==
    \/ QSetBinary
    \/ \E resp \in {"ready", "short", "pending"} :
        \/ \E buf \in QLineChunks : QWriteTo(buf, resp)
        \/ QFlushTo(resp)
        \/ QCloseTo(resp)

SpecQPLine == Init /\ [][QLineNext]_vars

\* The Writer and the sink after the calls of the sequence calls that have completed,
\* made in the same order on a sink that is always ready.
RECURSIVE AlwaysReady(_, _, _)
AlwaysReady(calls, w, out) ==
    IF calls = <<>> THEN [w |-> w, out |-> out]
    ELSE LET c == Head(calls)
             r == IF c.op = "write" THEN poll_write(w, out, c.buf, "ready")
                  ELSE IF c.op = "flush" THEN poll_flush(w, out, "ready")
                  ELSE poll_shutdown(w, out, "ready")
         IN  IF c.kind = "ok" THEN AlwaysReady(Tail(calls), r.w, r.out)
             ELSE AlwaysReady(Tail(calls), w, out)

\* The sink was ready or suspended the Writer in every call so far.
NoShortWrite == \A i \in 1..Len(qin) : qin[i].sink # "short"

\* C27: when the sink has answered some calls with Pending and the caller has made
\* each of these calls again with the same data, the sink holds after close the bytes
\* that it holds when the same calls are made on a sink that is always ready.
C27_EncoderSuspension ==
    (~qw.open /\ NoShortWrite) => qsink = AlwaysReady(qin, new_qp_writer, <<>>).out

\* C28: a sink that takes only a part of the line buffer makes no call fail, and the
\* bytes it has taken followed by the bytes the Writer still holds are those of a
\* Writer over a sink that is always ready: the rest is kept and nothing is sent twice.
C28_ShortWrites ==
    LET tolerated == \A i \in 1..Len(qin) : qin[i].kind # "err"
        whole == AlwaysReady(qin, new_qp_writer, <<>>)
    IN  /\ tolerated
        /\ (\A i \in 1..Len(qin) : qin[i].sink # "pending")
               => qsink \o qw.line = whole.out \o whole.w.line

----------------------------------------------------------------------------
(* Claims about the line buffer of the quoted-printable Writer *)

\* C39: in every state of the quoted-printable Writer, after any writes, flushes and
\* closes in either mode and whatever the sink answered, line_len is between 0 and 78,
\* and no more than 78 cells of the line buffer have ever been in use (no index of 78
\* or more has been read or written).
C39_LineBufferBound ==
    /\ Len(qw.line) >= 0
    /\ Len(qw.line) <= 78
    /\ qw.peak <= 78

\* A line of 72 bytes has taken an escape, or a space that close has escaped (75 cells
\* in use), and a call has met a sink that was not ready.
C39_Witness ==
    /\ qw.peak = 75
    /\ \E i \in 1..Len(qin) : qin[i].kind # "ok"

----------------------------------------------------------------------------
(* Claims about the encoding of the quoted-printable Writer *)

\* C31: in non-binary mode the Writer has emitted as many CRLF line breaks (those of
\* soft line breaks apart) as the input has logical line breaks, a CR followed at once
\* by LF counting once and every other CR or LF once.
C31_LineBreaks ==
    ~qw.binary =>
        LET out == qsink \o qw.line
        IN  Occurrences(out, <<13, 10>>) - Occurrences(out, <<61, 13, 10>>)
              = Occurrences(QInput, <<13>>) + Occurrences(QInput, <<10>>)
                  - Occurrences(QInput, <<13, 10>>)

\* The encoding of one byte that is no line break: itself for '!' to '~' without '=',
\* for space and for tab, and otherwise '=' and two upper-case hex digits.
EncodedByte(b) ==
    LET digits == <<48, 49, 50, 51, 52, 53, 54, 55, 56, 57, 65, 66, 67, 68, 69, 70>>
    IN  IF (b >= 33 /\ b <= 126 /\ b # 61) \/ b = 32 \/ b = 9 THEN <<b>>
        ELSE <<61, digits[(b \div 16) + 1], digits[(b % 16) + 1]>>

\* The encodings of the bytes of buf, in order, the structural CR and LF of the
\* non-binary mode left out.
RECURSIVE EncodedBytes(_, _)
EncodedBytes(buf, binary) ==
    IF buf = <<>> THEN <<>>
    ELSE IF ~binary /\ (Head(buf) = 13 \/ Head(buf) = 10) THEN EncodedBytes(Tail(buf), binary)
    ELSE EncodedByte(Head(buf)) \o EncodedBytes(Tail(buf), binary)

\* out without its line breaks: the bytes that belong to no CR LF and to no "=" CR LF.
WithoutLineBreaks(out) ==
    LET n == Len(out)
        cr(i) == i >= 1 /\ i < n /\ out[i] = 13 /\ out[i + 1] = 10
        tagged == [i \in 1..n |->
                      [b |-> out[i],
                       brk |-> cr(i) \/ cr(i - 1) \/ (out[i] = 61 /\ cr(i + 1))]]
        kept == SelectSeq(tagged, LAMBDA t : ~t.brk)
    IN  [i \in 1..Len(kept) |-> kept[i].b]

\* C32: the bytes emitted, line breaks apart, are the encodings of the input bytes
\* that are no structural line breaks, in input order; after close the last of them,
\* when it is a space or a tab, may have been replaced by its escape.
C32_PerByte ==
    LET expected == Concat([i \in 1..Len(QWrites) |->
                               EncodedBytes(QWrites[i].buf, qw.binary)])
        emitted == WithoutLineBreaks(qsink \o qw.line)
        n == Len(expected)
    IN  \/ emitted = expected
        \/ /\ ~qw.open
           /\ n > 0 /\ expected[n] \in {32, 9}
           /\ emitted = Take(expected, n - 1)
                          \o (IF expected[n] = 9 THEN <<61, 48, 57>> ELSE <<61, 50, 48>>)

\* A write of "=" and tab, one of the byte 0xC8 and one of 40 letters have been
\* encoded and the Writer is closed.
C32_Witness ==
    /\ ~qw.open
    /\ \E i, j, k \in 1..Len(QWrites) :
          /\ QWrites[i].buf = <<61, 9>>
          /\ QWrites[j].buf = <<200>>
          /\ Len(QWrites[k].buf) > 2

----------------------------------------------------------------------------
(* Claims about the decoding of the quoted-printable Reader *)

\* The value of a hex digit of either case, or -1.
HexValue(d) ==
    IF d \in 48..57 THEN d - 48
    ELSE IF d \in 65..70 THEN d - 55
    ELSE IF d \in 97..102 THEN d - 87
    ELSE -1

\* The bytes that the content c of a line stands for: '=' and two hex digits are the
\* byte they denote, any other '=' is a literal '=', every other byte is itself.
RECURSIVE Unescaped(_)
Unescaped(c) ==
    IF c = <<>> THEN <<>>
    ELSE IF c[1] = 61 /\ Len(c) >= 3 /\ HexValue(c[2]) >= 0 /\ HexValue(c[3]) >= 0
    THEN <<16 * HexValue(c[2]) + HexValue(c[3])>> \o Unescaped(SubSeq(c, 4, Len(c)))
    ELSE <<c[1]>> \o Unescaped(Tail(c))

\* The line terminator a line gives the output: none after a soft line break, CRLF
\* for a line that ends in CR LF, LF for one that ends in a bare LF, none otherwise.
Terminator(line) ==
    LET n == Len(line)
    IN  IF SoftBreak(line) \/ n = 0 \/ line[n] # 10 THEN <<>>
        ELSE IF n >= 2 /\ line[n - 1] = 13 THEN <<13, 10>>
        ELSE <<10>>

\* The content of a line without the '=' of its soft line break.
EscapedContent(line) ==
    IF SoftBreak(line) THEN SubSeq(LineContent(line), 1, Len(LineContent(line)) - 1)
    ELSE LineContent(line)

\* C33: a source without control bytes never makes a read fail, whatever follows its
\* '=' bytes, and read to the end of the stream it yields, line by line, its content
\* with every '=' and two hex digits of either case replaced by their byte and every
\* other '=' kept as it is.
C33_MalformedEscape ==
    (qr # NoReader /\ NoControlByte(qsrc))
    => /\ \A i \in 1..Len(qreads) : qreads[i].kind = "ok"
       /\ (\E i \in 1..Len(qreads) : QEndOfStream(i))
             => QDecoded = Concat([i \in 1..Len(PhysicalLines(qsrc)) |->
                                     Unescaped(EscapedContent(PhysicalLines(qsrc)[i]))
                                       \o Terminator(PhysicalLines(qsrc)[i])])

\* "=4a=4G=c8x=4\n==41=" has been read to the end of the stream.
C33_Witness ==
    /\ qr # NoReader
    /\ qsrc = <<61, 52, 97, 61, 52, 71, 61, 99, 56, 120, 61, 52, 10, 61, 61, 52, 49, 61>>
    /\ QDecoded = <<74, 61, 52, 71, 200, 120, 61, 52, 10, 61, 65>>
    /\ \E i \in 1..Len(qreads) : QEndOfStream(i)

\* C34: a line that is no soft line break gives the output its decoded content, the
\* trailing CR, LF, spaces and tabs removed, and then CRLF when it ended in CR LF, LF
\* when it ended in a bare LF, and nothing when it had no LF: a source whose lines
\* all decode, read to the end of the stream, yields the concatenation.
C34_LineTerminator ==
    (/\ qr # NoReader
     /\ \A i \in 1..Len(PhysicalLines(qsrc)) : ~decode_line(PhysicalLines(qsrc)[i]).err
     /\ \E i \in 1..Len(qreads) : QEndOfStream(i))
    => QDecoded =
         Concat([i \in 1..Len(PhysicalLines(qsrc)) |->
                   LET line == PhysicalLines(qsrc)[i]
                   IN  IF SoftBreak(line) THEN DecodedLine(line)
                       ELSE decode_content(LineContent(line), 1, <<>>).result
                              \o (IF line[Len(line)] # 10 THEN <<>>
                                  ELSE IF Len(line) >= 2 /\ line[Len(line) - 1] = 13
                                  THEN <<13, 10>>
                                  ELSE <<10>>)])

\* "a \t\r\nb\r \nc " has been read to the end of the stream as "a\r\nb\nc".
C34_Witness ==
    /\ qr # NoReader
    /\ qsrc = <<97, 32, 9, 13, 10, 98, 13, 32, 10, 99, 32>>
    /\ QDecoded = <<97, 13, 10, 98, 10, 99>>
    /\ \E i \in 1..Len(qreads) : QEndOfStream(i)

====
